---- MODULE Spec2Model ----
(***************************************************************************)
(* Verification model of the ingestion-to-signal pipeline:                 *)
(*   - UpstoxDataManager (app/services/ingestion.py): the reconnecting     *)
(*     feed client with dynamic subscription diffing;                      *)
(*   - SignalGenerator (app/workers/signal_generator.py): the minute       *)
(*     aligned cycle orchestrator.                                         *)
(* Both are asyncio coroutines: a step of the model is the completion of   *)
(* one await together with the code that runs up to the next await.        *)
(***************************************************************************)
EXTENDS Integers, Sequences, FiniteSets, TLC

\* ------------------------------------------------------------- bounds
MaxConn == 2        \* connections the upstream accepts in one run
MaxFrames == 2      \* data frames the upstream delivers in one run
MaxEntries == 2     \* entries of the feeds map of one frame
MaxCalls == 2       \* update_subscriptions calls made by other tasks
MaxTicks == 2       \* ticks of one instrument in one window
MaxMinutes == 3     \* clock minutes the wall clock runs through
MaxLate == 2        \* clock units a sleep may return after it is due

\* ------------------------------------------------- program constants
RECONNECT_DELAY == 5
STABILIZE_DELAY == 1
DATA_RETENTION_SECONDS == 120

index_key == "NSE_INDEX|Nifty 50"
OptionKeys == {"NSE_FO|1", "NSE_FO|2"}
InstrKeys == {index_key} \cup OptionKeys

\* key_mapping as main() builds it; "NSE_FO|2" stands for a key without alias
key_mapping == [k \in {index_key, "NSE_FO|1"} |->
                  IF k = index_key THEN "NIFTY_50" ELSE "26200_CE"]

\* stream_key = f"stream:{readable_name}"
StreamKey_raw(k) == <<"stream", k>>
StreamKey(k) == <<"stream", IF k \in DOMAIN key_mapping THEN key_mapping[k] ELSE k>>
StreamKeys == {StreamKey(k) : k \in InstrKeys}

Callers == {"fc", "ext"}     \* subscribe_initial's call, and a call from another task

\* A decoded frame: ok = FALSE is a buffer the protobuf decoder rejects;
\* feeds is the feeds map in iteration order, mff = market payload non-empty.
Entry == [key : InstrKeys, mff : BOOLEAN]
FeedSeqs == UNION {[1..n -> Entry] : n \in 0..MaxEntries}
Distinct(s) == \A i, j \in DOMAIN s : i # j => s[i].key # s[j].key
Frames == {[ok |-> FALSE, feeds |-> <<>>]} \cup
          {[ok |-> TRUE, feeds |-> s] : s \in {t \in FeedSeqs : Distinct(t)}}

VARIABLES
  \* UpstoxDataManager fields
  is_running, websocket, active_option_keys,
  \* start_stream: parameter and position
  initial_option_keys, fc_pc, fc_feeds,
  \* update_subscriptions activations, one per caller
  us_pc, us_target, us_A, us_sent,
  \* upstream side of the connections
  conns, ws_open, up_index, up_subs, frames_in,
  \* tick store: records appended per stream
  store,
  \* observation of the run
  fc_waited, fc_gap, fc_handler, conn_raised, conn_dropped, calls,
  \* the feeds map of the frame being processed (empty when none is: before
  \* the first, after the last append, once the frame is dropped), and the
  \* store as it was when the frame came in
  fc_frame, fc_base

fcvars == <<is_running, websocket, active_option_keys, initial_option_keys, fc_pc,
            fc_feeds, us_pc, us_target, us_A, us_sent, conns, ws_open, up_index,
            up_subs, frames_in, store, fc_waited, fc_gap, fc_handler,
            conn_raised, conn_dropped, calls, fc_frame, fc_base>>

VARIABLES
  \* SignalGenerator fields and the store connections it owns
  running, redis_open, pg_open, proc_open,
  \* the ticks the stream store holds for the window of the cycle
  window_ticks,
  \* start: position, and the locals streams, loop index, analyzer results
  sg_pc, streams, sg_i, is_panic, whale_alerts,
  \* observation of the cycle: windows fetched and operations performed
  sg_seen, sg_log, sg_exc, stop_requested, sg_aborted

sgvars == <<running, redis_open, pg_open, proc_open, window_ticks, sg_pc, streams, sg_i, is_panic,
            whale_alerts, sg_seen, sg_log, sg_exc, stop_requested, sg_aborted>>

VARIABLES
  \* the wall clock, and the minute loop of SignalGenerator.start seen against it
  now, sched_pc, wake_at, begins, ends

clockvars == <<now, sched_pc, wake_at, begins, ends>>

VARIABLES
  \* one call of an analyzer: which one, its arguments, its result
  an_fn, an_in, an_out

anvars == <<an_fn, an_in, an_out>>

VARIABLES
  \* the tick store seen against time: the wall clock, the entries of each
  \* stream ([t: ID time, n: serial]), everything ever appended, the stream the
  \* last step appended to, and one orchestrator cycle reading the store
  rt_now, rt_log, rt_ever, rt_n, rt_just, rt_pc, rt_end, rt_streams, rt_i, rt_got

retvars == <<rt_now, rt_log, rt_ever, rt_n, rt_just, rt_pc, rt_end, rt_streams, rt_i, rt_got>>

vars == <<fcvars, sgvars, clockvars, anvars, retvars>>

\* what the steps of one component leave alone
NotFeed == <<sgvars, clockvars, anvars, retvars>>
NotOrch == <<fcvars, clockvars, anvars, retvars>>
NotClock == <<fcvars, sgvars, anvars, retvars>>
NotAnalyzers == <<fcvars, sgvars, clockvars, retvars>>
NotRetention == <<fcvars, sgvars, clockvars, anvars>>

\* ------------------------------------------------------------- Init
\* UpstoxDataManager.__init__
FcInit ==
  /\ is_running = FALSE
  /\ websocket = 0                       \* None
  /\ active_option_keys = {}
  /\ initial_option_keys = {}
  /\ fc_pc = "init"
  /\ fc_feeds = <<>>
  /\ us_pc = [c \in Callers |-> "idle"]
  /\ us_target = [c \in Callers |-> {}]
  /\ us_A = [c \in Callers |-> {}]
  /\ us_sent = [c \in Callers |-> <<>>]
  /\ conns = 0
  /\ ws_open = FALSE
  /\ up_index = FALSE
  /\ up_subs = {}
  /\ frames_in = 0
  /\ store = [s \in StreamKeys |-> 0]
  /\ fc_waited = 0
  /\ fc_gap = -1
  /\ fc_handler = "none"
  /\ conn_raised = FALSE
  /\ conn_dropped = FALSE
  /\ calls = 0
  /\ fc_frame = <<>>
  /\ fc_base = [s \in StreamKeys |-> 0]

\* ------------------------------------------------ feed client helpers
\* on_message lines 230-235: entries with an empty market payload are skipped
RECURSIVE SkipEmpty(_)
SkipEmpty(s) == IF s = <<>> THEN <<>>
                ELSE IF Head(s).mff THEN s ELSE SkipEmpty(Tail(s))

\* update_subscriptions lines 138-139
keys_to_unsubscribe(c) == us_A[c] \ us_target[c]
keys_to_subscribe(c) == us_target[c] \ us_A[c]

\* the first await an activation with active set A and target T reaches
UsFirst(A, T) == IF A \ T # {} THEN "unsub"
                 ELSE IF T \ A # {} THEN "sub" ELSE "returned"

\* keys the upstream holds subscribed on the open connection
Subscribed == (IF up_index THEN {index_key} ELSE {}) \cup up_subs

\* the receive loop without its flag test
LoopHead_noflag == fc_pc' = "recv"

\* `while self.is_running:` of the receive loop (line 296): the next receive is
\* issued, or the loop ends and the `async with` block closes the connection
LoopHead == fc_pc' = IF is_running THEN "recv" ELSE "closing"

\* lines 310-314 and the outer `while` (276): the delay, or the return
AfterTry == fc_pc' = IF is_running THEN "sleep" ELSE "returned"

\* lines 276-279 with is_running true: get_authorization_url (synchronous), then
\* the connect is awaited; a failure is caught at 306 and the delay begins (310-312)
\* fc_gap: seconds slept since the previous attempt (-1: there was none)
Authorize(waited) ==
  /\ fc_gap' = waited
  /\ fc_waited' = 0
  /\ \E ok \in BOOLEAN :
       IF ok THEN fc_pc' = "connect" /\ fc_handler' = "none"
       ELSE fc_pc' = "sleep" /\ fc_handler' = "outer"

\* ------------------------------------------------ start_stream
StartStream ==
  /\ fc_pc = "init"
  /\ \E ks \in SUBSET OptionKeys : initial_option_keys' = ks
  /\ is_running' = TRUE
  /\ Authorize(-1)
  /\ UNCHANGED <<websocket, active_option_keys, fc_feeds, us_pc, us_target, us_A,
                 us_sent, conns, ws_open, up_index, up_subs, frames_in, store,
                 conn_raised, conn_dropped, calls>>
  /\ UNCHANGED <<fc_frame, fc_base>>
  /\ UNCHANGED NotFeed

\* websockets.connect succeeded (287-289); asyncio.sleep(1) is awaited next
ConnectOk ==
  /\ fc_pc = "connect"
  /\ conns < MaxConn
  /\ conns' = conns + 1
  /\ websocket' = conns + 1
  /\ ws_open' = TRUE
  /\ up_index' = FALSE
  /\ up_subs' = {}
  /\ conn_raised' = FALSE
  /\ conn_dropped' = FALSE
  /\ fc_pc' = "stabilize"
  /\ fc_handler' = "none"
  /\ UNCHANGED <<is_running, active_option_keys, initial_option_keys, fc_feeds, us_pc,
                 us_target, us_A, us_sent, frames_in, store, fc_waited, fc_gap, calls>>
  /\ UNCHANGED <<fc_frame, fc_base>>
  /\ UNCHANGED NotFeed

\* websockets.connect raised: caught at 306, then 310
ConnectFail ==
  /\ fc_pc = "connect"
  /\ AfterTry
  /\ fc_handler' = "outer"
  /\ UNCHANGED <<is_running, websocket, active_option_keys, initial_option_keys,
                 fc_feeds, us_pc, us_target, us_A, us_sent, conns, ws_open, up_index,
                 up_subs, frames_in, store, fc_waited, fc_gap, conn_raised,
                 conn_dropped, calls>>
  /\ UNCHANGED <<fc_frame, fc_base>>
  /\ UNCHANGED NotFeed

\* line 292 done; subscribe_initial sends the index frame (252-260)
StabilizeDone ==
  /\ fc_pc = "stabilize"
  /\ fc_waited' = fc_waited + STABILIZE_DELAY
  /\ fc_pc' = "sub_index"
  /\ fc_handler' = "none"
  /\ UNCHANGED <<is_running, websocket, active_option_keys, initial_option_keys,
                 fc_feeds, us_pc, us_target, us_A, us_sent, conns, ws_open, up_index,
                 up_subs, frames_in, store, fc_gap, conn_raised, conn_dropped, calls>>
  /\ UNCHANGED <<fc_frame, fc_base>>
  /\ UNCHANGED NotFeed

\* the index send returned (260); `if option_keys:` enters update_subscriptions
\* (264-265, 135-139) or subscribe_initial returns to the receive loop
SubIndexOk ==
  /\ fc_pc = "sub_index"
  /\ ws_open
  /\ up_index' = TRUE
  /\ fc_handler' = "none"
  /\ IF initial_option_keys # {}
     THEN LET first == UsFirst(active_option_keys, initial_option_keys) IN
          /\ us_A' = [us_A EXCEPT !["fc"] = active_option_keys]
          /\ us_target' = [us_target EXCEPT !["fc"] = initial_option_keys]
          /\ us_sent' = [us_sent EXCEPT !["fc"] = <<>>]
          /\ us_pc' = [us_pc EXCEPT !["fc"] = first]
          /\ IF first = "returned"
             THEN /\ active_option_keys' = initial_option_keys
                  /\ LoopHead
             ELSE /\ active_option_keys' = active_option_keys
                  /\ fc_pc' = "sub_options"
     ELSE /\ LoopHead
          /\ UNCHANGED <<us_A, us_target, us_sent, us_pc, active_option_keys>>
  /\ UNCHANGED <<is_running, websocket, initial_option_keys, fc_feeds, conns, ws_open,
                 up_subs, frames_in, store, fc_waited, fc_gap, conn_raised,
                 conn_dropped, calls>>
  /\ UNCHANGED <<fc_frame, fc_base>>
  /\ UNCHANGED NotFeed

\* the index send raised: the exception leaves the `async with` block
SubIndexFail ==
  /\ fc_pc = "sub_index"
  /\ ~ws_open
  /\ fc_pc' = "closing"
  /\ fc_handler' = "outer"
  /\ UNCHANGED <<is_running, websocket, active_option_keys, initial_option_keys,
                 fc_feeds, us_pc, us_target, us_A, us_sent, conns, ws_open, up_index,
                 up_subs, frames_in, store, fc_waited, fc_gap, conn_raised,
                 conn_dropped, calls>>
  /\ UNCHANGED <<fc_frame, fc_base>>
  /\ UNCHANGED NotFeed

\* ------------------------------------------------ update_subscriptions
\* control frames, lines 144-150 and 156-163
\* an unsub frame for everything the connection holds outside the target
unsubscribe_msg_all(c) == [method |-> "unsub", keys |-> Subscribed \ us_target[c]]
unsubscribe_msg(c) == [method |-> "unsub", keys |-> keys_to_unsubscribe(c)]
\* a sub frame that repeats the whole target
subscribe_msg_full(c) == [method |-> "sub", keys |-> us_target[c]]

subscribe_msg(c) == [method |-> "sub", keys |-> keys_to_subscribe(c)]

\* self.websocket.send succeeds on an open connection and raises otherwise
\* (AttributeError on None, ConnectionClosed on a closed connection)
CanSend == websocket # 0 /\ ws_open

\* line 167, and the return to the caller: subscribe_initial's caller goes on to
\* the receive loop
UsReturn(c) ==
  /\ active_option_keys' = us_target[c]
  /\ us_pc' = [us_pc EXCEPT ![c] = "returned"]
  /\ IF c = "fc"
     THEN LoopHead /\ fc_handler' = "none"
     ELSE UNCHANGED <<fc_pc, fc_handler>>

\* a send raised: the activation ends without reaching line 167; in
\* start_stream the exception leaves the `async with` block
UsRaise(c) ==
  /\ us_pc' = [us_pc EXCEPT ![c] = "raised"]
  /\ IF c = "fc"
     THEN fc_pc' = "closing" /\ fc_handler' = "outer"
     ELSE UNCHANGED <<fc_pc, fc_handler>>
  /\ UNCHANGED <<active_option_keys, up_subs, us_sent>>

\* a call from another task: lines 135-142/154 up to the first send, or the
\* whole body when both differences are empty
UsCall(c, T) ==
  /\ c # "fc"
  /\ us_pc[c] \in {"idle", "returned", "raised"}
  /\ calls < MaxCalls
  /\ calls' = calls + 1
  /\ LET first == UsFirst(active_option_keys, T) IN
     /\ us_A' = [us_A EXCEPT ![c] = active_option_keys]
     /\ us_target' = [us_target EXCEPT ![c] = T]
     /\ us_sent' = [us_sent EXCEPT ![c] = <<>>]
     /\ us_pc' = [us_pc EXCEPT ![c] = first]
     /\ active_option_keys' = IF first = "returned" THEN T ELSE active_option_keys
  /\ UNCHANGED <<is_running, websocket, initial_option_keys, fc_pc, fc_feeds, conns,
                 ws_open, up_index, up_subs, frames_in, store, fc_waited, fc_gap,
                 fc_handler, conn_raised, conn_dropped>>
  /\ UNCHANGED <<fc_frame, fc_base>>
  /\ UNCHANGED NotFeed

\* the unsub send returned (151); the sub send is awaited next, or line 167
UsUnsubOk(c) ==
  /\ us_pc[c] = "unsub"
  /\ CanSend
  /\ up_subs' = up_subs \ unsubscribe_msg(c).keys
  /\ us_sent' = [us_sent EXCEPT ![c] = Append(@, unsubscribe_msg(c))]
  /\ IF keys_to_subscribe(c) # {}
     THEN /\ us_pc' = [us_pc EXCEPT ![c] = "sub"]
          /\ UNCHANGED <<active_option_keys, fc_pc, fc_handler>>
     ELSE UsReturn(c)
  /\ UNCHANGED <<is_running, websocket, initial_option_keys, fc_feeds, us_target, us_A,
                 conns, ws_open, up_index, frames_in, store, fc_waited, fc_gap, conn_raised, conn_dropped, calls>>
  /\ UNCHANGED <<fc_frame, fc_base>>
  /\ UNCHANGED NotFeed

UsUnsubFail(c) ==
  /\ us_pc[c] = "unsub"
  /\ ~CanSend
  /\ UsRaise(c)
  /\ UNCHANGED <<is_running, websocket, initial_option_keys, fc_feeds, us_target, us_A,
                 conns, ws_open, up_index, frames_in, store, fc_waited, fc_gap, conn_raised, conn_dropped, calls>>
  /\ UNCHANGED <<fc_frame, fc_base>>
  /\ UNCHANGED NotFeed

\* the sub send returned (164), then line 167
UsSubOk(c) ==
  /\ us_pc[c] = "sub"
  /\ CanSend
  /\ up_subs' = up_subs \cup subscribe_msg(c).keys
  /\ us_sent' = [us_sent EXCEPT ![c] = Append(@, subscribe_msg(c))]
  /\ UsReturn(c)
  /\ UNCHANGED <<is_running, websocket, initial_option_keys, fc_feeds, us_target, us_A,
                 conns, ws_open, up_index, frames_in, store, fc_waited, fc_gap, conn_raised, conn_dropped, calls>>
  /\ UNCHANGED <<fc_frame, fc_base>>
  /\ UNCHANGED NotFeed

UsSubFail(c) ==
  /\ us_pc[c] = "sub"
  /\ ~CanSend
  /\ UsRaise(c)
  /\ UNCHANGED <<is_running, websocket, initial_option_keys, fc_feeds, us_target, us_A,
                 conns, ws_open, up_index, frames_in, store, fc_waited, fc_gap, conn_raised, conn_dropped, calls>>
  /\ UNCHANGED <<fc_frame, fc_base>>
  /\ UNCHANGED NotFeed

\* ------------------------------------------------ receive loop
\* what on_message does with a received frame up to its first await (222-239):
\* a decode error is caught at 241; entries without market payload are skipped;
\* the first append is awaited, or the frame is finished
RecvFrame(f) ==
  /\ fc_pc = "recv"
  /\ ws_open
  /\ frames_in < MaxFrames
  /\ \A i \in DOMAIN f.feeds : f.feeds[i].key \in Subscribed
  /\ frames_in' = frames_in + 1
  /\ IF ~f.ok
     THEN /\ LoopHead
          /\ fc_feeds' = <<>>
          /\ fc_handler' = "on_message"
          /\ conn_dropped' = TRUE
     ELSE /\ fc_feeds' = SkipEmpty(f.feeds)
          /\ IF SkipEmpty(f.feeds) = <<>> THEN LoopHead ELSE fc_pc' = "append"
          /\ fc_handler' = "none"
          /\ UNCHANGED conn_dropped
  /\ UNCHANGED <<is_running, websocket, active_option_keys, initial_option_keys, us_pc,
                 us_target, us_A, us_sent, conns, ws_open, up_index, up_subs, store,
                 fc_waited, fc_gap, conn_raised, calls>>
  /\ fc_frame' = (IF f.ok /\ SkipEmpty(f.feeds) # <<>> THEN f.feeds ELSE <<>>)
  /\ fc_base' = store
  /\ UNCHANGED NotFeed

\* recv raised ConnectionClosed: lines 300-302, break, the block is left
RecvClosed ==
  /\ fc_pc = "recv"
  /\ ~ws_open
  /\ fc_pc' = "closing"
  /\ fc_handler' = "recv_closed"
  /\ conn_raised' = TRUE
  /\ UNCHANGED <<is_running, websocket, active_option_keys, initial_option_keys,
                 fc_feeds, us_pc, us_target, us_A, us_sent, conns, ws_open, up_index,
                 up_subs, frames_in, store, fc_waited, fc_gap, conn_dropped, calls>>
  /\ fc_frame' = <<>> /\ fc_base' = store
  /\ UNCHANGED NotFeed

\* recv raised another exception: lines 303-304 log it and the loop goes on
RecvError ==
  /\ fc_pc = "recv"
  /\ LoopHead
  /\ fc_handler' = "recv_error"
  /\ conn_raised' = TRUE
  /\ UNCHANGED <<is_running, websocket, active_option_keys, initial_option_keys,
                 fc_feeds, us_pc, us_target, us_A, us_sent, conns, ws_open, up_index,
                 up_subs, frames_in, store, fc_waited, fc_gap, conn_dropped, calls>>
  /\ fc_frame' = <<>> /\ fc_base' = store
  /\ UNCHANGED NotFeed

\* process_raw_feed: the xadd of the entry at the head returned (188-207); the
\* loop of on_message goes on to the next entry with a market payload
AppendOk ==
  /\ fc_pc = "append"
  /\ store' = [store EXCEPT ![StreamKey(Head(fc_feeds).key)] = @ + 1]
  /\ fc_feeds' = SkipEmpty(Tail(fc_feeds))
  /\ IF SkipEmpty(Tail(fc_feeds)) = <<>> THEN LoopHead ELSE fc_pc' = "append"
  /\ fc_handler' = "none"
  /\ UNCHANGED <<is_running, websocket, active_option_keys, initial_option_keys, us_pc,
                 us_target, us_A, us_sent, conns, ws_open, up_index, up_subs,
                 frames_in, fc_waited, fc_gap, conn_raised, conn_dropped, calls>>
  /\ IF SkipEmpty(Tail(fc_feeds)) = <<>>
     THEN fc_frame' = <<>> /\ fc_base' = store'
     ELSE UNCHANGED <<fc_frame, fc_base>>
  /\ UNCHANGED NotFeed

\* on_message without its try: the xadd's exception reaches line 303
AppendFail_propagates ==
  /\ fc_pc = "append"
  /\ fc_feeds' = <<>>
  /\ LoopHead
  /\ fc_handler' = "recv_error"
  /\ conn_raised' = TRUE
  /\ UNCHANGED <<is_running, websocket, active_option_keys, initial_option_keys, us_pc,
                 us_target, us_A, us_sent, conns, ws_open, up_index, up_subs,
                 frames_in, store, fc_waited, fc_gap, conn_dropped, calls>>
  /\ fc_frame' = <<>> /\ fc_base' = store
  /\ UNCHANGED NotFeed

\* the xadd raised: caught at 241, the rest of the frame is dropped
AppendFail ==
  /\ fc_pc = "append"
  /\ fc_feeds' = <<>>
  /\ LoopHead
  /\ fc_handler' = "on_message"
  /\ conn_dropped' = TRUE
  /\ UNCHANGED <<is_running, websocket, active_option_keys, initial_option_keys, us_pc,
                 us_target, us_A, us_sent, conns, ws_open, up_index, up_subs,
                 frames_in, store, fc_waited, fc_gap, conn_raised, calls>>
  /\ fc_frame' = <<>> /\ fc_base' = store
  /\ UNCHANGED NotFeed

\* the `async with` block is left (normally, by break or by an exception, which
\* the handler at 306 then catches): the connection is closed, then line 310
ClosingDone ==
  /\ fc_pc = "closing"
  /\ ws_open' = FALSE
  /\ AfterTry
  /\ UNCHANGED <<is_running, websocket, active_option_keys, initial_option_keys,
                 fc_feeds, us_pc, us_target, us_A, us_sent, conns, up_index, up_subs,
                 frames_in, store, fc_waited, fc_gap, fc_handler,
                 conn_raised, conn_dropped, calls>>
  /\ fc_frame' = <<>> /\ fc_base' = store
  /\ UNCHANGED NotFeed

\* a retry that does not wait
SleepDone_immediate ==
  /\ fc_pc = "sleep"
  /\ IF is_running
     THEN Authorize(fc_waited)
     ELSE /\ fc_pc' = "returned"
          /\ UNCHANGED <<fc_waited, fc_gap, fc_handler>>
  /\ UNCHANGED <<is_running, websocket, active_option_keys, initial_option_keys,
                 fc_feeds, us_pc, us_target, us_A, us_sent, conns, ws_open, up_index,
                 up_subs, frames_in, store, conn_raised, conn_dropped, calls>>
  /\ UNCHANGED <<fc_frame, fc_base>>
  /\ UNCHANGED NotFeed

\* asyncio.sleep(RECONNECT_DELAY) returned (312): the outer `while` (276)
SleepDone ==
  /\ fc_pc = "sleep"
  /\ IF is_running
     THEN Authorize(fc_waited + RECONNECT_DELAY)
     ELSE /\ fc_pc' = "returned"
          /\ fc_waited' = fc_waited + RECONNECT_DELAY
          /\ UNCHANGED <<fc_gap, fc_handler>>
  /\ UNCHANGED <<is_running, websocket, active_option_keys, initial_option_keys,
                 fc_feeds, us_pc, us_target, us_A, us_sent, conns, ws_open, up_index,
                 up_subs, frames_in, store, conn_raised, conn_dropped, calls>>
  /\ UNCHANGED <<fc_frame, fc_base>>
  /\ UNCHANGED NotFeed

\* ------------------------------------------------ environment of the client
\* the upstream (or the network) closes the open connection
PeerClose ==
  /\ ws_open
  /\ ws_open' = FALSE
  /\ UNCHANGED <<is_running, websocket, active_option_keys, initial_option_keys, fc_pc,
                 fc_feeds, us_pc, us_target, us_A, us_sent, conns, up_index, up_subs,
                 frames_in, store, fc_waited, fc_gap, fc_handler,
                 conn_raised, conn_dropped, calls>>
  /\ UNCHANGED <<fc_frame, fc_base>>
  /\ UNCHANGED NotFeed

\* signal_handler of __main__ (399-402)
StopRequest ==
  /\ is_running
  /\ is_running' = FALSE
  /\ UNCHANGED <<websocket, active_option_keys, initial_option_keys, fc_pc,
                 fc_feeds, us_pc, us_target, us_A, us_sent, conns, ws_open, up_index,
                 up_subs, frames_in, store, fc_waited, fc_gap, fc_handler, conn_raised, conn_dropped, calls>>
  /\ UNCHANGED <<fc_frame, fc_base>>
  /\ UNCHANGED NotFeed

\* UpstoxDataManager.stop (316-325): the flag, then the websocket is closed
Stop ==
  /\ is_running
  /\ is_running' = FALSE
  /\ ws_open' = FALSE
  /\ UNCHANGED <<websocket, active_option_keys, initial_option_keys, fc_pc,
                 fc_feeds, us_pc, us_target, us_A, us_sent, conns, up_index,
                 up_subs, frames_in, store, fc_waited, fc_gap, fc_handler, conn_raised, conn_dropped, calls>>
  /\ UNCHANGED <<fc_frame, fc_base>>
  /\ UNCHANGED NotFeed

\* (with subscribe_initial the only caller, active_option_keys is empty or the
\* initial keys, so its update_subscriptions never has keys to unsubscribe)
FcStep ==
  \/ StartStream
  \/ ConnectOk
  \/ ConnectFail
  \/ StabilizeDone
  \/ SubIndexOk
  \/ SubIndexFail
  \/ UsSubOk("fc")
  \/ UsSubFail("fc")
  \/ \E f \in Frames : RecvFrame(f)
  \/ RecvClosed
  \/ RecvError
  \/ AppendOk
  \/ AppendFail
  \/ ClosingDone
  \/ SleepDone

FcEnv ==
  \/ PeerClose
  \/ StopRequest
  \/ Stop

\* update_subscriptions called by another task of the process
ExtCalls ==
  \/ \E T \in SUBSET OptionKeys : UsCall("ext", T)
  \/ UsUnsubOk("ext")
  \/ UsUnsubFail("ext")
  \/ UsSubOk("ext")
  \/ UsSubFail("ext")

\* start_stream on a feed whose data frames carry no entry
FcCtl ==
  \/ StartStream
  \/ ConnectOk
  \/ ConnectFail
  \/ StabilizeDone
  \/ SubIndexOk
  \/ SubIndexFail
  \/ UsUnsubOk("fc")
  \/ UsUnsubFail("fc")
  \/ UsSubOk("fc")
  \/ UsSubFail("fc")
  \/ \E f \in {g \in Frames : g.feeds = <<>>} : RecvFrame(f)
  \/ RecvClosed
  \/ RecvError
  \/ ClosingDone
  \/ SleepDone
FcNext == FcStep \/ FcEnv
SubsNext == FcCtl \/ FcEnv \/ ExtCalls

\* =====================================================================
\* SignalGenerator
\* =====================================================================
\* streams the key scan can discover (stream:<alias>)
StreamNames == {"NIFTY_50", "26200_CE"}

\* ticks as fetch_ticks_range returns them, reduced to the fields the window
\* analyzers of the cycle branch on (prices in whole rupees)
TickSet ==
  { [ltp |-> 100, oi |-> 10000, volume |-> 1000, bid_qty |-> 0,     ask_qty |-> 0],
    [ltp |-> 102, oi |-> 4000,  volume |-> 4000, bid_qty |-> 60000, ask_qty |-> 0] }
Windows == UNION {[1..n -> TickSet] : n \in 0..MaxTicks}

\* analyzer thresholds
oi_threshold == 500
volume_threshold == 1000
min_oi_drop == -5000
min_price_jump_pct == 1
min_volume_multiplier == 2
SMALL_WHALE_THRESHOLD == 2000
MEDIUM_WHALE_THRESHOLD == 5000
LARGE_WHALE_THRESHOLD == 10000
MEGA_WHALE_THRESHOLD == 20000
VOLUME_SPIKE_MULTIPLIER == 10
VOLUME_SPIKE_FLOOR == 1000
ORDER_WALL_THRESHOLD == 50000

SetMax(S) == CHOOSE x \in S : \A y \in S : y <= x
SetMin(S) == CHOOSE x \in S : \A y \in S : x <= y
Abs_identity(x) == x
Abs(x) == IF x < 0 THEN -x ELSE x

\* price_change_pct > pct, with price_change_pct = price_change / ltp_start * 100
\* for ltp_start > 0 and 0 otherwise (pattern_detector.py 35, 53)
PctAbove_ignored(price_change, ltp_start, pct) == TRUE
PctAbove(price_change, ltp_start, pct) ==
  IF ltp_start > 0 THEN price_change * 100 > pct * ltp_start ELSE 0 > pct

\* np.diff of one column of the window
Diffs(w, f) == {w[i + 1][f] - w[i][f] : i \in 1..(Len(w) - 1)}
RECURSIVE SumDiffs(_, _, _)
SumDiffs(w, f, i) == IF i >= Len(w) THEN 0
                     ELSE (w[i + 1][f] - w[i][f]) + SumDiffs(w, f, i + 1)

\* analyze_oi_pattern: price_change_pct > min_price_jump_pct is compared as
\* price_change * 100 > min_price_jump_pct * ltp_start (ltp_start > 0)
analyze_oi_pattern(w) ==
  IF Len(w) < 2
  THEN [pattern |-> "Insufficient Data", signal |-> "Neutral", is_panic |-> FALSE,
        price_change |-> 0, oi_change |-> 0, volume_change |-> 0, ltp |-> 0]
  ELSE
    LET ltp_start == w[1].ltp
        ltp_end == w[Len(w)].ltp
        price_change == ltp_end - ltp_start
        pct_above == PctAbove(price_change, ltp_start, min_price_jump_pct)
        oi_change == w[Len(w)].oi - w[1].oi
        volume_change == w[Len(w)].volume - w[1].volume
        cls ==
          IF oi_change < min_oi_drop /\ pct_above
             /\ volume_change > volume_threshold * min_volume_multiplier
          THEN <<"Panic (Short Covering)", "PANIC BUY", TRUE>>    \* signal text follows a rocket glyph
          ELSE IF volume_change < volume_threshold THEN <<"Low Volume", "Skip", FALSE>>
          ELSE IF Abs(oi_change) <= oi_threshold THEN <<"Neutral", "Churn", FALSE>>
          ELSE IF price_change > 0 /\ oi_change > oi_threshold
               THEN <<"Long Buildup", "Bullish", FALSE>>
          ELSE IF price_change > 0 /\ oi_change < -oi_threshold
               THEN <<"Short Covering", "Very Bullish", FALSE>>
          ELSE IF price_change < 0 /\ oi_change > oi_threshold
               THEN <<"Short Buildup", "Bearish", FALSE>>
          ELSE IF price_change < 0 /\ oi_change < -oi_threshold
               THEN <<"Long Unwinding", "Bearish", FALSE>>
          ELSE <<"Neutral", "Churn", FALSE>>
    IN [pattern |-> cls[1], signal |-> cls[2], is_panic |-> cls[3],
        price_change |-> price_change, oi_change |-> oi_change,
        volume_change |-> volume_change, ltp |-> ltp_end]

WhaleType_exclusive(d) == IF d > MEGA_WHALE_THRESHOLD THEN "Mega Whale"
                          ELSE IF d > LARGE_WHALE_THRESHOLD THEN "Large Whale"
                          ELSE IF d > MEDIUM_WHALE_THRESHOLD THEN "Medium Whale"
                          ELSE "Small Whale"
WhaleType(d) == IF d >= MEGA_WHALE_THRESHOLD THEN "Mega Whale"
                ELSE IF d >= LARGE_WHALE_THRESHOLD THEN "Large Whale"
                ELSE IF d >= MEDIUM_WHALE_THRESHOLD THEN "Medium Whale"
                ELSE "Small Whale"

\* the test of line 64 on max_vol, the sum of the n volume differences and n:
\* avg_vol > 0 and max_vol > avg_vol * 10 and max_vol > 1000, with avg_vol = total / n
volume_spike_unscaled(max_vol, total, n) ==
  /\ total > 0
  /\ max_vol * n > total
  /\ max_vol > VOLUME_SPIKE_FLOOR
volume_spike(max_vol, total, n) ==
  /\ total > 0
  /\ max_vol * n > total * VOLUME_SPIKE_MULTIPLIER
  /\ max_vol > VOLUME_SPIKE_FLOOR

\* analyze_whale_activity: the alerts in the order the code appends them
analyze_whale_activity(w) ==
  LET oi_diffs == Diffs(w, "oi")
      vol_diffs == Diffs(w, "volume")
      n == Len(w) - 1
      jump == IF Len(w) >= 2 /\ SetMax(oi_diffs) >= SMALL_WHALE_THRESHOLD
              THEN <<[whale_type |-> WhaleType(SetMax(oi_diffs)), alert_type |-> "OI Jump",
                      alert_value |-> SetMax(oi_diffs), signal |-> "Bullish"]>>
              ELSE <<>>
      drop == IF Len(w) >= 2 /\ SetMin(oi_diffs) <= -SMALL_WHALE_THRESHOLD
              THEN <<[whale_type |-> WhaleType(-SetMin(oi_diffs)), alert_type |-> "OI Drop",
                      alert_value |-> SetMin(oi_diffs), signal |-> "Bearish"]>>
              ELSE <<>>
      spike == IF Len(w) >= 2 /\ volume_spike(SetMax(vol_diffs), SumDiffs(w, "volume", 1), n)
               THEN <<[whale_type |-> "Volume Whale", alert_type |-> "Volume Spike",
                       alert_value |-> SetMax(vol_diffs), signal |-> "Neutral"]>>
               ELSE <<>>
      max_bid == SetMax({w[i].bid_qty : i \in DOMAIN w})
      max_ask == SetMax({w[i].ask_qty : i \in DOMAIN w})
      bid == IF Len(w) > 0 /\ max_bid >= ORDER_WALL_THRESHOLD
             THEN <<[whale_type |-> "Limit Whale", alert_type |-> "Bid Wall",
                     alert_value |-> max_bid, signal |-> "Bullish Support"]>>
             ELSE <<>>
      ask == IF Len(w) > 0 /\ max_ask >= ORDER_WALL_THRESHOLD
             THEN <<[whale_type |-> "Limit Whale", alert_type |-> "Ask Wall",
                     alert_value |-> max_ask, signal |-> "Bearish Resistance"]>>
             ELSE <<>>
  IN jump \o drop \o spike \o bid \o ask

\* SignalGenerator.__init__
SgInit ==
  /\ running = FALSE
  /\ redis_open = FALSE
  /\ pg_open = FALSE
  /\ proc_open = FALSE
  /\ window_ticks = [s \in StreamNames |-> <<>>]
  /\ sg_pc = "init"
  /\ streams = <<>>
  /\ sg_i = 0
  /\ is_panic = FALSE
  /\ whale_alerts = <<>>
  /\ sg_seen = <<>>
  /\ sg_log = <<>>
  /\ sg_exc = "none"
  /\ stop_requested = FALSE
  /\ sg_aborted = FALSE

\* operations of the cycle in progress are logged as <<operation, loop index>>
Logged(ops) == sg_log' = sg_log \o [k \in 1..Len(ops) |-> <<ops[k], sg_i>>]

\* `while self.running:` (45): the sleep to the next minute, or the loop ends
\* and the finally clause runs
LoopTop == sg_pc' = IF running THEN "sleep" ELSE "finally"

\* the `for` statement (76) takes the next stream, or the loop body is done
NextInstrument ==
  IF sg_i < Len(streams)
  THEN sg_i' = sg_i + 1 /\ sg_pc' = "fetch"
  ELSE sg_i' = sg_i /\ LoopTop

\* lines 39-42: the three connects, then the loop is entered
SgStartOk ==
  /\ sg_pc = "init"
  /\ running' = TRUE
  /\ redis_open' = TRUE /\ pg_open' = TRUE /\ proc_open' = TRUE
  /\ sg_pc' = "sleep"
  /\ UNCHANGED <<window_ticks, streams, sg_i, is_panic, whale_alerts, sg_seen, sg_log, sg_exc,
                 stop_requested, sg_aborted>>
  /\ UNCHANGED NotOrch

\* a connect raised: start propagates it (the try begins at 44)
SgStartFail ==
  /\ sg_pc = "init"
  /\ sg_pc' = "failed"
  /\ UNCHANGED <<window_ticks, running, redis_open, pg_open, proc_open, streams, sg_i, is_panic,
                 whale_alerts, sg_seen, sg_log, sg_exc, stop_requested, sg_aborted>>
  /\ UNCHANGED NotOrch

\* the sleep to the minute boundary returned (51): window (55-57), first scan
SgSleepDone ==
  /\ sg_pc = "sleep"
  /\ window_ticks' \in [StreamNames -> Windows]
  /\ streams' = <<>>
  /\ sg_i' = 0
  /\ sg_seen' = <<>>
  /\ sg_log' = <<>>
  /\ sg_pc' = "scan"
  /\ UNCHANGED <<running, redis_open, pg_open, proc_open, is_panic, whale_alerts,
                 sg_exc, stop_requested, sg_aborted>>
  /\ UNCHANGED NotOrch

SgLocals == <<running, redis_open, pg_open, proc_open, window_ticks, stop_requested,
              sg_aborted>>

\* the exception leaves the loop: `except Exception` (198-199) logs it
SgRaise ==
  /\ sg_pc' = "finally"
  /\ sg_exc' = "error"
  /\ UNCHANGED <<streams, sg_i, is_panic, whale_alerts, sg_seen, sg_log>>
  /\ UNCHANGED SgLocals
  /\ UNCHANGED NotOrch

\* one page of the key scan (64-68); a zero cursor ends the scan, then 70-76
SgScanOk(keys, more) ==
  /\ sg_pc = "scan"
  /\ \A k \in 1..Len(keys) : \A j \in 1..Len(streams) : streams[j] # keys[k]
  /\ streams' = streams \o keys
  /\ IF more THEN sg_pc' = "scan" /\ sg_i' = sg_i
     ELSE IF streams' = <<>> THEN sg_i' = sg_i /\ LoopTop
     ELSE sg_i' = 1 /\ sg_pc' = "fetch"
  /\ UNCHANGED <<is_panic, whale_alerts, sg_seen, sg_log, sg_exc>>
  /\ UNCHANGED SgLocals
  /\ UNCHANGED NotOrch

SgScanFail == sg_pc = "scan" /\ SgRaise

\* MarketDataProcessor.fetch_ticks_range: the ticks of the window, or none when
\* the range query fails (as fetch_ticks does)
fetch_ticks_range(key, ok) == IF ok THEN window_ticks[key] ELSE <<>>

\* fetch_ticks_range returned (81): no ticks skips the instrument (83-84);
\* otherwise arrays and the four analyzers run (87-99) and the publish is issued
FetchDone(ok) ==
  LET w == fetch_ticks_range(streams[sg_i], ok) IN
  /\ sg_pc = "fetch"
  /\ sg_seen' = Append(sg_seen, [key |-> streams[sg_i], ticks |-> w])
  /\ IF w = <<>>
     THEN /\ Logged(<<"fetch">>)
          /\ NextInstrument
          /\ UNCHANGED <<is_panic, whale_alerts>>
     ELSE /\ Logged(<<"fetch", "arrays", "pattern", "imbalance", "greeks", "whale">>)
          /\ is_panic' = analyze_oi_pattern(w).is_panic
          /\ whale_alerts' = analyze_whale_activity(w)
          /\ sg_i' = sg_i
          /\ sg_pc' = "publish"
  /\ UNCHANGED <<streams, sg_exc>>
  /\ UNCHANGED SgLocals
  /\ UNCHANGED NotOrch

\* a store operation of the instrument returned; `ops` are it and the pure
\* computations that follow it up to the next await
SgDone(at, ops, next) ==
  /\ sg_pc = at
  /\ Logged(ops)
  /\ sg_pc' = next
  /\ UNCHANGED <<streams, sg_i, is_panic, sg_seen, sg_exc>>
  /\ UNCHANGED SgLocals
  /\ UNCHANGED NotOrch

\* 121
PublishOk == SgDone("publish", <<"publish">>, "insert_pattern") /\ UNCHANGED whale_alerts
PublishFail == sg_pc = "publish" /\ SgRaise

\* 127: the panic row is written only for a panic result
AfterInsertPattern_always == "insert_panic"
AfterInsertPattern == IF is_panic THEN "insert_panic" ELSE "insert_imbalance"

\* 158: the whale loop takes the next alert, or the history query is issued
AfterGreeks == IF whale_alerts # <<>> THEN "insert_whale" ELSE "get_recent"

\* 124
insert_pattern ==
  /\ pg_open
  /\ SgDone("insert_pattern", <<"insert_pattern">>, AfterInsertPattern)
  /\ UNCHANGED whale_alerts
\* 128
insert_panic_signal ==
  /\ pg_open
  /\ SgDone("insert_panic", <<"insert_panic">>, "insert_imbalance")
  /\ UNCHANGED whale_alerts
\* 141
insert_imbalance ==
  /\ pg_open
  /\ SgDone("insert_imbalance", <<"insert_imbalance">>, "insert_greeks")
  /\ UNCHANGED whale_alerts
\* 155
insert_greeks_momentum ==
  /\ pg_open
  /\ SgDone("insert_greeks", <<"insert_greeks">>, AfterGreeks)
  /\ UNCHANGED whale_alerts
\* 167
insert_whale_alert ==
  /\ pg_open
  /\ sg_pc = "insert_whale"
  /\ whale_alerts' = Tail(whale_alerts)
  /\ SgDone("insert_whale", <<Head(whale_alerts).alert_type>>,
            IF Tail(whale_alerts) # <<>> THEN "insert_whale" ELSE "get_recent")
\* 172-175: the history query, then the sentiment analysis
get_recent_signals ==
  /\ pg_open
  /\ SgDone("get_recent", <<"get_recent", "sentiment">>, "insert_sentiment")
  /\ UNCHANGED whale_alerts
\* 189, then the `for` statement
insert_market_sentiment ==
  /\ pg_open
  /\ sg_pc = "insert_sentiment"
  /\ Logged(<<"insert_sentiment">>)
  /\ NextInstrument
  /\ UNCHANGED <<streams, is_panic, whale_alerts, sg_seen, sg_exc>>
  /\ UNCHANGED SgLocals
  /\ UNCHANGED NotOrch

PgOps == {"insert_pattern", "insert_panic", "insert_imbalance", "insert_greeks",
          "insert_whale", "get_recent", "insert_sentiment"}
StoreOps == PgOps \cup {"scan", "fetch", "publish"}

\* a PostgresClient method raised (no handler in the client or around the call)
PgFail == sg_pc \in PgOps /\ SgRaise

\* stop (203-208), as the finally clause runs it (200-201)
SgFinally ==
  /\ sg_pc = "finally"
  /\ running' = FALSE
  /\ redis_open' = FALSE /\ pg_open' = FALSE /\ proc_open' = FALSE
  /\ sg_pc' = "stopped"
  /\ UNCHANGED <<window_ticks, streams, sg_i, is_panic, whale_alerts, sg_seen, sg_log, sg_exc,
                 stop_requested, sg_aborted>>
  /\ UNCHANGED NotOrch

\* stop (203-208) called by another task while start is at an await
SgStop ==
  /\ sg_pc \in StoreOps \cup {"sleep"}
  /\ running
  /\ running' = FALSE
  /\ redis_open' = FALSE /\ pg_open' = FALSE /\ proc_open' = FALSE
  /\ stop_requested' = TRUE
  /\ UNCHANGED <<window_ticks, sg_pc, streams, sg_i, is_panic, whale_alerts, sg_seen, sg_log, sg_exc,
                 sg_aborted>>
  /\ UNCHANGED NotOrch

\* the task is cancelled (asyncio.run on KeyboardInterrupt, 212-215): the
\* pending await raises CancelledError, caught at 196-197
SgCancel ==
  /\ sg_pc \in StoreOps \cup {"sleep"}
  /\ sg_pc' = "finally"
  /\ sg_exc' = "cancelled"
  /\ stop_requested' = TRUE
  /\ sg_aborted' = (sg_aborted \/ sg_pc \in StoreOps)
  /\ UNCHANGED <<running, redis_open, pg_open, proc_open, window_ticks, streams, sg_i,
                 is_panic, whale_alerts, sg_seen, sg_log>>
  /\ UNCHANGED NotOrch

ScanPages == {<<>>} \cup {<<a>> : a \in StreamNames}
               \cup {<<a, b>> : a, b \in StreamNames}

SgStep ==
  \/ SgStartOk \/ SgStartFail \/ SgSleepDone
  \/ \E keys \in ScanPages, more \in BOOLEAN : SgScanOk(keys, more)
  \/ SgScanFail
  \/ \E ok \in BOOLEAN : FetchDone(ok)
  \/ PublishOk \/ PublishFail
  \/ insert_pattern \/ insert_panic_signal \/ insert_imbalance
  \/ insert_greeks_momentum \/ insert_whale_alert
  \/ get_recent_signals \/ insert_market_sentiment
  \/ PgFail
  \/ SgFinally
SgEnv == SgStop \/ SgCancel
SgNext == SgStep \/ SgEnv

\* =====================================================================
\* The minute loop against the wall clock (time in units of 50 ms)
\* =====================================================================
MINUTE == 1200      \* 60 s
MIN_SLEEP == 2      \* max(0.1, seconds)

ClockInit ==
  /\ now = 0
  /\ sched_pc = "init"
  /\ wake_at = 0
  /\ begins = <<>>
  /\ ends = <<>>

\* get_seconds_to_next_minute at wall-clock time t
get_seconds_to_next_minute_short(t) ==
  LET seconds == (MINUTE - 20) - (t % MINUTE)
  IN IF seconds < MIN_SLEEP THEN MIN_SLEEP ELSE seconds
get_seconds_to_next_minute(t) ==
  LET seconds == MINUTE - (t % MINUTE)
  IN IF seconds < MIN_SLEEP THEN MIN_SLEEP ELSE seconds

MinuteOf(t) == t \div MINUTE

\* 36-45: start is called at some time of the first minute and enters the loop
SchedStart ==
  /\ sched_pc = "init"
  /\ sched_pc' = "head"
  /\ UNCHANGED <<now, wake_at, begins, ends>>
  /\ UNCHANGED NotClock

\* 45-51: the loop head computes the sleep and the sleep is awaited
SchedSleep ==
  /\ sched_pc = "head"
  /\ wake_at' = now + get_seconds_to_next_minute(now)
  /\ sched_pc' = "sleeping"
  /\ UNCHANGED <<now, begins, ends>>
  /\ UNCHANGED NotClock

\* 51-57: the sleep returned, not before it was due: a cycle begins
SchedWake ==
  /\ sched_pc = "sleeping"
  /\ now >= wake_at
  /\ begins' = Append(begins, MinuteOf(now))
  /\ sched_pc' = "cycle"
  /\ UNCHANGED <<now, wake_at, ends>>
  /\ UNCHANGED NotClock

\* 59-194: the processing of the cycle ended, the loop head is reached again
SchedCycleDone ==
  /\ sched_pc = "cycle"
  /\ ends' = Append(ends, MinuteOf(now))
  /\ sched_pc' = "head"
  /\ UNCHANGED <<now, wake_at, begins>>
  /\ UNCHANGED NotClock

\* the wall clock advances; a due sleep returns at most MaxLate units late, and
\* the loop head takes no time
ClockTick ==
  /\ now < MaxMinutes * MINUTE
  /\ sched_pc # "head"
  /\ sched_pc = "init" => now < MINUTE - 1
  /\ sched_pc = "sleeping" => now < wake_at + MaxLate
  /\ now' = now + 1
  /\ UNCHANGED <<sched_pc, wake_at, begins, ends>>
  /\ UNCHANGED NotClock

SchedNext == SchedStart \/ SchedSleep \/ SchedWake \/ SchedCycleDone \/ ClockTick

\* =====================================================================
\* The analyzers, called on their own
\* =====================================================================
AnInit ==
  /\ an_fn = "none"
  /\ an_in = <<>>
  /\ an_out = <<>>

\* windows for analyze_oi_pattern: first tick fixed, last tick around every
\* threshold of the classification; with and without a tick in between
PatternFirst == [ltp |-> 100, oi |-> 10000, volume |-> 1000, bid_qty |-> 0, ask_qty |-> 0]
PatternLast ==
  { [ltp |-> l, oi |-> o, volume |-> v, bid_qty |-> 0, ask_qty |-> 0] :
      l \in {98, 100, 101, 102},
      o \in {4000, 4999, 5000, 9499, 9500, 10000, 10500, 10501, 16000},
      v \in {1000, 1999, 2000, 3000, 3001} }
PatternWindows ==
  {<<>>, <<PatternFirst>>}
    \cup {<<PatternFirst, b>> : b \in PatternLast}
    \cup {<<PatternFirst, m, b>> : m \in TickSet, b \in PatternLast}

CallPattern ==
  /\ an_fn = "none"
  /\ \E w \in PatternWindows :
       /\ an_fn' = "pattern"
       /\ an_in' = w
       /\ an_out' = analyze_oi_pattern(w)
  /\ UNCHANGED NotAnalyzers

\* ------------------------------------------------ analyze_order_book_imbalance
\* windows for analyze_order_book_imbalance: quantities are non-negative
BookQty == {0, 1, 1000, 1499, 1500, 1501, 2000}
BookTicks == [tbq : BookQty, tsq : BookQty, ltp : {100}]
BookWindows == UNION {[1..n -> BookTicks] : n \in 0..MaxTicks}

\* a ratio is kept exact, as <<numerator, denominator>> with denominator > 0
IMBALANCE_NUM == 1     \* the signal threshold 0.2 = 1/5
IMBALANCE_DEN == 5

\* 45-49
imbalance_signal_unsigned(num, den) ==
  IF num * IMBALANCE_DEN > IMBALANCE_NUM * den THEN "Bullish (Bid Heavy)"
  ELSE IF num * IMBALANCE_DEN < IMBALANCE_NUM * den THEN "Bearish (Ask Heavy)"
  ELSE "Neutral"
imbalance_signal(num, den) ==
  IF num * IMBALANCE_DEN > IMBALANCE_NUM * den THEN "Bullish (Bid Heavy)"
  ELSE IF num * IMBALANCE_DEN < -IMBALANCE_NUM * den THEN "Bearish (Ask Heavy)"
  ELSE "Neutral"

analyze_order_book_imbalance(w) ==
  IF Len(w) = 0
  THEN [signal |-> "Insufficient Data", imbalance_ratio |-> <<0, 1>>,
        tbq |-> 0, tsq |-> 0, ltp |-> 0]
  ELSE
    LET tbq == w[Len(w)].tbq
        tsq == w[Len(w)].tsq
        ltp == w[Len(w)].ltp
        total_qty == tbq + tsq
    IN IF total_qty = 0
       THEN [signal |-> "Neutral", imbalance_ratio |-> <<0, 1>>,
             tbq |-> 0, tsq |-> 0, ltp |-> ltp]
       ELSE [signal |-> imbalance_signal(tbq - tsq, total_qty),
             imbalance_ratio |-> <<tbq - tsq, total_qty>>,
             tbq |-> tbq, tsq |-> tsq, ltp |-> ltp]

CallImbalance ==
  /\ an_fn = "none"
  /\ \E w \in BookWindows :
       /\ an_fn' = "imbalance"
       /\ an_in' = w
       /\ an_out' = analyze_order_book_imbalance(w)
  /\ UNCHANGED NotAnalyzers

\* ------------------------------------------------ analyze_greeks_momentum
\* Greeks are kept in units of 0.0001; a rate is the exact fraction
\* <<change, seconds>> (units per second) and a score the exact fraction <<n, d>>
\* with d > 0
HIGH_DELTA_VELOCITY == 10      \* 0.001 per second
HIGH_GAMMA_SPIKE == 1          \* 0.0001 per second
HIGH_IV_VELOCITY == 5          \* 0.0005 per second
DELTA_WEIGHT == 20
GAMMA_WEIGHT == 15
IV_WEIGHT == 10
DEFAULT_SCORE == 0             \* 'momentum_score': 0.0 of the defaults
NEUTRAL_SCORE_default == DEFAULT_SCORE
NEUTRAL_SCORE == 50            \* score = 50.0

GreekFirst ==
  { [delta |-> 5000, gamma |-> g, iv |-> 2000, theta |-> -50000] : g \in {20, 80} }
GreekLast ==
  { [delta |-> d, gamma |-> g, iv |-> i, theta |-> t] :
      d \in {4400, 5000, 5300, 5600, 6000},
      g \in {20, 50, 80},
      i \in {1700, 2000, 2150, 2300},
      t \in {-50000, -40000} }
GreekWindows ==
  {<<>>} \cup {<<a>> : a \in GreekFirst}
    \cup {<<a, b>> : a \in GreekFirst, b \in GreekLast}
    \cup {<<a, a, b>> : a \in GreekFirst, b \in GreekLast}
Durations == {1, 60}

Sign(x) == IF x > 0 THEN 1 ELSE IF x < 0 THEN -1 ELSE 0

\* 66-69, 73-76: the contribution of a rate change/seconds against threshold and
\* weight, as a numerator over the denominator seconds * threshold
Contribution(change, seconds, threshold, weight) ==
  IF Abs(change) >= threshold * seconds
  THEN weight * Sign(change) * seconds * threshold
  ELSE change * weight

\* 79-80: the IV contribution has no branch below the threshold
IvContribution_interpolated(change, seconds, threshold, weight) ==
  Contribution(change, seconds, threshold, weight)
IvContribution(change, seconds, threshold, weight) ==
  IF Abs(change) >= threshold * seconds
  THEN weight * Sign(change) * seconds * threshold
  ELSE 0

\* 83
Clamp_none(lo, x, hi) == x
Clamp(lo, x, hi) == IF x < lo THEN lo ELSE IF x > hi THEN hi ELSE x

\* 86-106, for the score n / d
momentum_type(n, d) ==
  IF n >= 80 * d THEN <<"Explosive Bullish", "STRONG BUY">>
  ELSE IF n >= 65 * d THEN <<"Strong Bullish", "BUY">>
  ELSE IF n >= 55 * d THEN <<"Moderate Bullish", "BUY/WAIT">>
  ELSE IF n <= 20 * d THEN <<"Explosive Bearish", "STRONG SELL">>
  ELSE IF n <= 35 * d THEN <<"Strong Bearish", "SELL">>
  ELSE IF n <= 45 * d THEN <<"Moderate Bearish", "SELL/WAIT">>
  ELSE <<"Neutral", "WAIT">>

analyze_greeks_momentum(w, duration_seconds) ==
  IF Len(w) < 2
  THEN [delta_velocity |-> <<0, 1>>, gamma_acceleration |-> <<0, 1>>,
        iv_velocity |-> <<0, 1>>, theta_acceleration |-> <<0, 1>>,
        momentum_score |-> <<DEFAULT_SCORE, 1>>,
        momentum_type |-> "Neutral", signal |-> "WAIT"]
  ELSE
    LET first == w[1]
        last == w[Len(w)]
        T == duration_seconds
        dd == last.delta - first.delta
        dg == last.gamma - first.gamma
        di == last.iv - first.iv
        dt == last.theta - first.theta
        \* common denominator of the three contributions
        d == T * HIGH_DELTA_VELOCITY * HIGH_GAMMA_SPIKE * HIGH_IV_VELOCITY
        n == NEUTRAL_SCORE * d
             + Contribution(dd, T, HIGH_DELTA_VELOCITY, DELTA_WEIGHT)
                 * HIGH_GAMMA_SPIKE * HIGH_IV_VELOCITY
             + Contribution(dg, T, HIGH_GAMMA_SPIKE, GAMMA_WEIGHT)
                 * HIGH_DELTA_VELOCITY * HIGH_IV_VELOCITY
             + IvContribution(di, T, HIGH_IV_VELOCITY, IV_WEIGHT)
                 * HIGH_DELTA_VELOCITY * HIGH_GAMMA_SPIKE
        score == Clamp(0, n, 100 * d)
    IN [delta_velocity |-> <<dd, T>>, gamma_acceleration |-> <<dg, T>>,
        iv_velocity |-> <<di, T>>, theta_acceleration |-> <<dt, T>>,
        momentum_score |-> <<score, d>>,
        momentum_type |-> momentum_type(score, d)[1],
        signal |-> momentum_type(score, d)[2]]

CallGreeks ==
  /\ an_fn = "none"
  /\ \E w \in GreekWindows, duration_seconds \in Durations :
       /\ an_fn' = "greeks"
       /\ an_in' = [arrays |-> w, duration_seconds |-> duration_seconds]
       /\ an_out' = analyze_greeks_momentum(w, duration_seconds)
  /\ UNCHANGED NotAnalyzers

\* ---- analyze_whale_activity called on its own (whale_detector.py) -------
WhaleFirst == [ltp |-> 100, oi |-> 100000, volume |-> 1000, bid_qty |-> 0, ask_qty |-> 0]
OiSteps == {-25000, -20000, -19999, -10000, -9999, -5000, -4999, -2000, -1999, 0,
            1999, 2000, 4999, 5000, 9999, 10000, 19999, 20000, 25000}
WhaleTicks ==
  { [ltp |-> 100, oi |-> WhaleFirst.oi + o, volume |-> 2000, bid_qty |-> b, ask_qty |-> 0] :
      o \in OiSteps, b \in {0, 60000} }
WhaleWindows ==
  {<<>>, <<WhaleFirst>>}
    \cup {<<WhaleFirst, b>> : b \in WhaleTicks}
    \cup {<<WhaleFirst, m, b>> : m \in {t \in WhaleTicks : t.bid_qty = 0}, b \in WhaleTicks}

\* windows for the volume test: n ticks whose cumulative volume rises by `rest`
\* per tick and by `jump` more at tick p + 1; with fall > 0 the volume drops
\* again at the last tick (a cumulative counter that was reset)
MaxSpikeTicks == 12
VolumeJumps == {1000, 1001, 1000000}
VolumeWindow(n, p, jump, rest, fall) ==
  [i \in 1..n |->
     [WhaleFirst EXCEPT !.volume = WhaleFirst.volume + rest * (i - 1)
                                     + (IF i > p THEN jump ELSE 0)
                                     - (IF i = n THEN fall ELSE 0)]]
VolumeWindows ==
  {VolumeWindow(n, p, jump, rest, 0) :
     n \in 2..MaxSpikeTicks, p \in 1..(MaxSpikeTicks - 1), jump \in VolumeJumps, rest \in {0, 1}}
  \cup {VolumeWindow(3, 1, jump, 0, jump - 1) : jump \in VolumeJumps}

CallWhale ==
  /\ an_fn = "none"
  /\ \E w \in WhaleWindows \cup VolumeWindows :
       /\ an_fn' = "whale"
       /\ an_in' = w
       /\ an_out' = analyze_whale_activity(w)
  /\ UNCHANGED NotAnalyzers

\* ---- analyze_market_sentiment (sentiment_analyzer.py) -------------------
\* Scores are exact fractions <<numerator, denominator>>; prices are in
\* thousandths, so that 0.1% of a price is a whole number.  Reported values
\* rounded by round(x, 2) are whole hundredths.
MaxPatterns == 2    \* pattern rows of a history (longer ones: LongPatterns)
MaxImbalances == 2  \* imbalance rows of a history
MaxWhales == 2      \* whale alert rows of a history

LATEST_PATTERNS == 5
PATTERN_WEIGHT == 10
PANIC_WEIGHT == 30
IMBALANCE_WEIGHT == 50
WHALE_WEIGHT == 15
RATIO_UNIT == 10               \* imbalance ratios are given in tenths
NoMetrics == 0                 \* a pattern row without the 'metrics' key

\* the signal strings of the histories, by the substrings the code looks for
\* (the emoji of the source's strings are left out)
Containing(sub) ==
  CASE sub = "Bullish" -> {"Bullish", "Very Bullish", "Bullish Support"}
    [] sub = "Bearish" -> {"Bearish", "Bearish Resistance"}
    [] sub = "Buy" -> {"Panic Buy"}
    [] sub = "Sell" -> {"Panic Sell"}
In(sub, sig) == sig \in Containing(sub)

SeqsUpTo(S, n) == UNION {[1..k -> S] : k \in 0..n}
PatternRows == {[signal |-> "Bullish", ltp |-> NoMetrics],
                [signal |-> "Bearish", ltp |-> 102000],
                [signal |-> "Very Bullish", ltp |-> 103000],
                [signal |-> "", ltp |-> 100000]}
LongPatterns ==
  {[i \in 1..(LATEST_PATTERNS + 1) |-> [signal |-> "Bullish", ltp |-> NoMetrics]],
   [i \in 1..(LATEST_PATTERNS + 1) |->
      [signal |-> IF i <= LATEST_PATTERNS THEN "Bearish" ELSE "Bullish", ltp |-> NoMetrics]]}
PanicHistories == {<<>>, <<"Panic Buy">>, <<"Panic Sell", "Panic Buy">>, <<"PANIC BUY">>}
ImbalanceRows == {[imbalance_ratio |-> 4, ltp |-> 98000],
                  [imbalance_ratio |-> -5, ltp |-> 99000]}
GreeksHistories == {<<>>, <<85>>, <<30, 85>>}
WhaleRows == {[signal |-> "Bullish", alert_type |-> "OI Jump"],
              [signal |-> "Bearish", alert_type |-> "OI Drop"]}
Histories == [patterns : SeqsUpTo(PatternRows, MaxPatterns) \cup LongPatterns,
              panic : PanicHistories,
              imbalance : SeqsUpTo(ImbalanceRows, MaxImbalances),
              greeks : GreeksHistories,
              whales : SeqsUpTo(WhaleRows, MaxWhales)]
Ltps == {100000}

RECURSIVE SeqSum(_)
SeqSum(s) == IF s = <<>> THEN 0 ELSE Head(s) + SeqSum(Tail(s))
Take(s, n) == IF Len(s) <= n THEN s ELSE SubSeq(s, 1, n)

\* round(n / d, 2) in hundredths, ties to the even neighbour
Round2(n, d) ==
  LET q == (100 * n) \div d
      r == (100 * n) % d
  IN IF 2 * r < d THEN q
     ELSE IF 2 * r > d THEN q + 1
     ELSE IF q % 2 = 0 THEN q ELSE q + 1

PatternVote(p) == IF In("Bullish", p.signal) \/ In("Buy", p.signal) THEN PATTERN_WEIGHT
                  ELSE IF In("Bearish", p.signal) \/ In("Sell", p.signal) THEN -PATTERN_WEIGHT
                  ELSE 0
pattern_score(pg_data) == 
  LET latest == Take(pg_data.patterns, LATEST_PATTERNS)
  IN SeqSum([i \in DOMAIN latest |-> PatternVote(latest[i])])
panic_score(pg_data) ==
  IF pg_data.panic = <<>> THEN 0
  ELSE IF In("Buy", pg_data.panic[1]) THEN PANIC_WEIGHT
  ELSE IF In("Sell", pg_data.panic[1]) THEN -PANIC_WEIGHT
  ELSE 0
\* the entry lines 43 and 46 append to key_insights (the other insights are
\* not modelled); the warning glyph of the source's strings is left out
panic_insight(pg_data) ==
  IF pg_data.panic = <<>> THEN "none"
  ELSE IF In("Buy", pg_data.panic[1]) THEN "Recent Panic Buy detected!"
  ELSE IF In("Sell", pg_data.panic[1]) THEN "Recent Panic Sell detected!"
  ELSE "none"
ratio_sum(rows) == SeqSum([i \in DOMAIN rows |-> rows[i].imbalance_ratio])
WhaleVote(w) == IF In("Bullish", w.signal) THEN WHALE_WEIGHT
                ELSE IF In("Bearish", w.signal) THEN -WHALE_WEIGHT
                ELSE 0
whale_score(pg_data) == 
  SeqSum([i \in DOMAIN pg_data.whales |-> WhaleVote(pg_data.whales[i])])

\* the denominator of the score: mean ratio * 50 is a multiple of
\* 1/(RATIO_UNIT * k) and (mom_score - 50) * 0.4 a multiple of 1/5
ScoreDen(pg_data) ==
  5 * RATIO_UNIT * (IF pg_data.imbalance = <<>> THEN 1 ELSE Len(pg_data.imbalance))
imbalance_num(pg_data) ==
  IF pg_data.imbalance = <<>> THEN 0
  ELSE ratio_sum(pg_data.imbalance) * IMBALANCE_WEIGHT * 5
greeks_num(pg_data) ==
  IF pg_data.greeks = <<>> THEN 0
  ELSE (pg_data.greeks[1] - NEUTRAL_SCORE) * 2 * (ScoreDen(pg_data) \div 5)

\* the branch of the trade setup taken for a score of score / d
TRADE_THRESHOLD == 20
setup_signal_inclusive(score, d) ==
  IF score >= TRADE_THRESHOLD * d THEN "BUY"
  ELSE IF score <= -TRADE_THRESHOLD * d THEN "SELL" ELSE "WAIT"
setup_signal(score, d) ==
  IF score > TRADE_THRESHOLD * d THEN "BUY"
  ELSE IF score < -TRADE_THRESHOLD * d THEN "SELL" ELSE "WAIT"

analyze_market_sentiment(pg_data, ltp) ==
  LET d == ScoreDen(pg_data)
      sum == (pattern_score(pg_data) + panic_score(pg_data) + whale_score(pg_data)) * d
             + imbalance_num(pg_data) + greeks_num(pg_data)
      score == Clamp(-100 * d, sum, 100 * d)
      sentiment == IF score >= 60 * d THEN "Extreme Bullish"
                   ELSE IF score >= 20 * d THEN "Bullish"
                   ELSE IF score <= -60 * d THEN "Extreme Bearish"
                   ELSE IF score <= -20 * d THEN "Bearish"
                   ELSE "Neutral"
      pattern_prices == {pg_data.patterns[i].ltp : i \in DOMAIN pg_data.patterns} \ {NoMetrics}
      recent_prices == IF pattern_prices = {}
                       THEN {pg_data.imbalance[i].ltp : i \in DOMAIN pg_data.imbalance}
                       ELSE pattern_prices
      tight == SetMax(recent_prices) - SetMin(recent_prices) < (ltp * 1) \div 1000
      support == IF recent_prices = {} THEN (ltp * 99) \div 100
                 ELSE IF tight THEN (ltp * 995) \div 1000
                 ELSE SetMin(recent_prices)
      resistance == IF recent_prices = {} THEN (ltp * 101) \div 100
                    ELSE IF tight THEN (ltp * 1005) \div 1000
                    ELSE SetMax(recent_prices)
      buy_stop == support - (ltp * 1) \div 1000
      buy_target == resistance + (ltp * 2) \div 1000
      sell_stop == resistance + (ltp * 1) \div 1000
      sell_target == support - (ltp * 2) \div 1000
      trade_setup ==
        IF setup_signal(score, d) = "BUY"
        THEN [entry_price |-> ltp, signal |-> "BUY", target |-> buy_target,
              stop_loss |-> buy_stop,
              rr_ratio |-> IF ltp - buy_stop > 0
                           THEN Round2(buy_target - ltp, ltp - buy_stop) ELSE 0]
        ELSE IF setup_signal(score, d) = "SELL"
        THEN [entry_price |-> ltp, signal |-> "SELL", target |-> sell_target,
              stop_loss |-> sell_stop,
              rr_ratio |-> IF sell_stop - ltp > 0
                           THEN Round2(ltp - sell_target, sell_stop - ltp) ELSE 0]
        ELSE [entry_price |-> ltp, signal |-> "WAIT", target |-> 0,
              stop_loss |-> 0, rr_ratio |-> 0]
  IN [sentiment |-> sentiment, score |-> <<score, d>>,
      sentiment_score |-> Round2(score, d),
      support |-> support, resistance |-> resistance,
      trade_setup |-> trade_setup,
      panic_insight |-> panic_insight(pg_data)]

CallSentiment ==
  /\ an_fn = "none"
  /\ \E pg_data \in Histories, ltp \in Ltps :
       /\ an_fn' = "sentiment"
       /\ an_in' = [pg_data |-> pg_data, ltp |-> ltp]
       /\ an_out' = analyze_market_sentiment(pg_data, ltp)
  /\ UNCHANGED NotAnalyzers

\* ---- MarketDataProcessor.get_arrays (processor.py) ----------------------
\* Values are whole numbers.  An array is a sequence; a depth matrix is its
\* shape together with its rows.
DEPTH_LEVELS == 30
FLOAT32_EXACT == 16777216      \* 2^24: whole numbers below it are exact in float32
Float32Fields == {"ltp", "cp", "atp", "delta", "gamma", "theta", "vega", "rho", "iv"}
Int64Fields == {"ltt", "oi", "volume", "tbq", "tsq"}
ScalarFields == Float32Fields \cup Int64Fields
Float32Levels == {"bid_prices", "ask_prices"}
DepthFields == {"bid_prices", "bid_qtys", "ask_prices", "ask_qtys"}
LevelKey(m) == CASE m = "bid_prices" -> "bidP" [] m = "bid_qtys" -> "bidQ"
                 [] m = "ask_prices" -> "askP" [] m = "ask_qtys" -> "askQ"

\* dtype=np.float32 on a whole number below 2^25: exact below 2^24, above it
\* the nearest even number, a tie going to the even mantissa
float32(x) ==
  IF x < FLOAT32_EXACT \/ x % 2 = 0 THEN x
  ELSE IF ((x - 1) \div 2) % 2 = 0 THEN x - 1 ELSE x + 1
InDtype(f, x) == IF f \in Float32Fields \cup Float32Levels THEN float32(x) ELSE x

\* the ticks given to get_arrays: two families of values, with 0, 1, 30 and 31
\* depth levels, and one tick whose price is not exact in float32
Level(seed, j) == [bidP |-> 100 * seed - j, bidQ |-> 10 * j + seed,
                   askP |-> 100 * seed + j, askQ |-> 20 * j + seed]
ArrayTick(seed, levels, ltp) ==
  [ltp |-> ltp, ltt |-> 1000 + seed, cp |-> 99 + seed, oi |-> 10000 * seed,
   volume |-> 500 * seed, atp |-> 98 + seed, tbq |-> 2000 * seed, tsq |-> 1000 * seed,
   delta |-> 50 + seed, gamma |-> seed, theta |-> -5 * seed, vega |-> 12 + seed,
   rho |-> 3 + seed, iv |-> 20 + seed,
   depth |-> [j \in 1..levels |-> Level(seed, j)]]
ArrayTicks ==
  {ArrayTick(seed, levels, 100 + seed) :
     seed \in {1, 2}, levels \in {0, 1, DEPTH_LEVELS, DEPTH_LEVELS + 1}}
    \cup {ArrayTick(1, 1, FLOAT32_EXACT + 1)}
TickLists == SeqsUpTo(ArrayTicks, MaxTicks)

\* a scalar array filled last tick first
column_reversed(ticks, f) ==
  [i \in DOMAIN ticks |-> InDtype(f, ticks[Len(ticks) + 1 - i][f])]
\* np.array([t[f] for t in ticks], dtype=...), lines 193-206
column(ticks, f) == [i \in DOMAIN ticks |-> InDtype(f, ticks[i][f])]

\* lines 179-190: zeros((n_ticks, 30)), then the first 30 levels of each tick
matrix(ticks, m) ==
  [shape |-> <<Len(ticks), DEPTH_LEVELS>>,
   rows |-> [i \in DOMAIN ticks |->
               LET depth == Take(ticks[i].depth, DEPTH_LEVELS)
               IN [j \in 1..DEPTH_LEVELS |->
                     IF j <= Len(depth) THEN InDtype(m, depth[j][LevelKey(m)]) ELSE 0]]]

\* lines 154-175 return the same shapes for no ticks: empty arrays, (0, 30) matrices
get_arrays(ticks) ==
  [f \in ScalarFields \cup DepthFields |->
     IF f \in ScalarFields THEN column(ticks, f) ELSE matrix(ticks, f)]

CallArrays ==
  /\ an_fn = "none"
  /\ \E ticks \in TickLists :
       /\ an_fn' = "arrays"
       /\ an_in' = ticks
       /\ an_out' = get_arrays(ticks)
  /\ UNCHANGED NotAnalyzers

\* one call per behaviour: every Call action tests an_fn = "none" before it
\* draws its input
AnNext ==
  \/ CallPattern
  \/ CallImbalance
  \/ CallGreeks
  \/ CallWhale
  \/ CallSentiment
  \/ CallArrays

\* =====================================================================
\* Retention of the tick store against the window of the cycle
\* =====================================================================
\* Feed appends (process_raw_feed) interleaved with one orchestrator's cycles
\* on a common wall clock.  Time is counted in units of RET_UNIT seconds.
MaxTime == 6        \* clock units the retention run lasts
MaxAppends == 3     \* appends the feed client makes in the run

RET_UNIT == 30
WINDOW_SECONDS == 60
RETENTION == DATA_RETENTION_SECONDS \div RET_UNIT
WINDOW == WINDOW_SECONDS \div RET_UNIT
ScanOrder == <<"NIFTY_50", "26200_CE">>

RtInit ==
  /\ rt_now = 0
  /\ rt_log = [k \in StreamNames |-> <<>>]
  /\ rt_ever = [k \in StreamNames |-> {}]
  /\ rt_n = 0
  /\ rt_just = "none"
  /\ rt_pc = "sleeping"
  /\ rt_end = -1                         \* no cycle yet
  /\ rt_streams = <<>>
  /\ rt_i = 0
  /\ rt_got = [key |-> "none", at |-> 0, end_time |-> 0, ticks |-> {}]

\* process_raw_feed line 195 with a retention equal to the window of the cycle
min_id_ms_window(current_time) == current_time - WINDOW
\* process_raw_feed line 195
min_id_ms(current_time) == current_time - RETENTION

\* entries of a stream whose ID time lies below minid: a prefix of the stream
Stale(entries, minid) == Cardinality({i \in DOMAIN entries : entries[i].t < minid})

\* XADD key MINID ~ minid * ...: redis-py's xadd has approximate=True unless
\* told otherwise, and the call at 202-207 does not pass it, so the server
\* evicts entries below minid only by whole nodes: some prefix of the stale
\* entries goes (evicted of them), then the new entry is added
xadd(entries, entry, evicted) ==
  SubSeq(entries, evicted + 1, Len(entries)) \o <<entry>>

\* RangeQuery(key, fromTime, toTime) over [start, end)
range_query(entries, start_time, end_time) ==
  {entries[i] : i \in {j \in DOMAIN entries :
      start_time <= entries[j].t /\ entries[j].t < end_time}}

\* process_raw_feed (188-207) for the stream k at the current time
RtAppend(k) ==
  /\ rt_n < MaxAppends
  /\ rt_n' = rt_n + 1
  /\ \E evicted \in 0..Stale(rt_log[k], min_id_ms(rt_now)) :
       rt_log' = [rt_log EXCEPT ![k] = xadd(@, [t |-> rt_now, n |-> rt_n + 1], evicted)]
  /\ rt_ever' = [rt_ever EXCEPT ![k] = @ \cup {[t |-> rt_now, n |-> rt_n + 1]}]
  /\ rt_just' = k
  /\ UNCHANGED <<rt_now, rt_pc, rt_end, rt_streams, rt_i, rt_got>>
  /\ UNCHANGED NotRetention

\* the wall clock advances
RtTick ==
  /\ rt_now < MaxTime
  /\ rt_now' = rt_now + 1
  /\ rt_just' = "none"
  /\ UNCHANGED <<rt_log, rt_ever, rt_n, rt_pc, rt_end, rt_streams, rt_i, rt_got>>
  /\ UNCHANGED NotRetention

\* SignalGenerator.start 47-57: the sleep to the minute boundary returned, the
\* window is [end_time - 60 s, end_time); the key scan is awaited
RtWake ==
  /\ rt_pc = "sleeping"
  /\ rt_now % WINDOW = 0
  /\ rt_now > rt_end
  /\ rt_end' = rt_now
  /\ rt_pc' = "scan"
  /\ rt_just' = "none"
  /\ UNCHANGED <<rt_now, rt_log, rt_ever, rt_n, rt_streams, rt_i, rt_got>>
  /\ UNCHANGED NotRetention

\* 62-72: the scan returned the streams that exist; none: `continue`
RtScan ==
  /\ rt_pc = "scan"
  /\ rt_streams' = SelectSeq(ScanOrder, LAMBDA k : rt_ever[k] # {})
  /\ rt_i' = 1
  /\ rt_pc' = IF rt_streams' = <<>> THEN "sleeping" ELSE "fetch"
  /\ rt_just' = "none"
  /\ UNCHANGED <<rt_now, rt_log, rt_ever, rt_n, rt_end, rt_got>>
  /\ UNCHANGED NotRetention

\* 76-81: the range fetch of the next stream returned; the rest of the
\* instrument's processing takes the time the clock gives it
RtFetch ==
  /\ rt_pc = "fetch"
  /\ rt_got' = [key |-> rt_streams[rt_i], at |-> rt_now, end_time |-> rt_end,
                ticks |-> range_query(rt_log[rt_streams[rt_i]], rt_end - WINDOW, rt_end)]
  /\ rt_i' = rt_i + 1
  /\ rt_pc' = IF rt_i = Len(rt_streams) THEN "sleeping" ELSE "fetch"
  /\ rt_just' = "none"
  /\ UNCHANGED <<rt_now, rt_log, rt_ever, rt_n, rt_end, rt_streams>>
  /\ UNCHANGED NotRetention

RtNext ==
  \/ \E k \in StreamNames : RtAppend(k)
  \/ RtTick
  \/ RtWake
  \/ RtScan
  \/ RtFetch

Init == FcInit /\ SgInit /\ ClockInit /\ AnInit /\ RtInit

SpecFeed == Init /\ [][FcNext]_vars
SpecSubs == Init /\ [][SubsNext]_vars
\* every await of start_stream eventually returns or raises
FairSpecFeed == SpecFeed /\ WF_vars(FcStep)
SpecOrch == Init /\ [][SgNext]_vars
SpecSched == Init /\ [][SchedNext]_vars
SpecAnalyze == Init /\ [][AnNext]_vars
SpecRetention == Init /\ [][RtNext]_vars

\* =====================================================================
\* Claims about the feed client
\* =====================================================================

\* C1: after a reconnect, when the first receive of the new connection is
\* issued, the index key and every key of active_option_keys have been
\* subscribed on the new connection.
C1_ResubscribedAfterReconnect ==
  (fc_pc = "recv" /\ conns >= 2) => (up_index /\ active_option_keys \subseteq up_subs)

\* the frames a completed update_subscriptions(T) with active set A has sent
C3_Expected(A, T) ==
  (IF A \ T # {} THEN <<[method |-> "unsub", keys |-> A \ T]>> ELSE <<>>) \o
  (IF T \ A # {} THEN <<[method |-> "sub", keys |-> T \ A]>> ELSE <<>>)

IsPrefix(s, t) == Len(s) <= Len(t) /\ \A i \in 1..Len(s) : s[i] = t[i]

\* the step in which the activation of caller c reaches its return
C3_Completes(c) ==
  /\ us_pc'[c] = "returned"
  /\ \/ us_pc[c] \in {"unsub", "sub"}
     \/ c = "fc" /\ SubIndexOk /\ initial_option_keys # {}
     \/ c # "fc" /\ \E T \in SUBSET OptionKeys : UsCall(c, T)

\* C3: update_subscriptions(target) called with active set A sends an unsub
\* frame with exactly A \ target iff that set is non-empty, then a sub frame
\* with exactly target \ A iff that set is non-empty, and nothing else;
\* active_option_keys changes only when a call returns, and then becomes the
\* target of that call.
C3_DiffFrames ==
  /\ [][\A c \in Callers : C3_Completes(c) =>
          /\ active_option_keys' = us_target'[c]
          /\ us_sent'[c] = C3_Expected(us_A'[c], us_target'[c])]_vars
  /\ [][active_option_keys' # active_option_keys =>
          \E c \in Callers : C3_Completes(c)]_vars
  /\ [](\A c \in Callers : us_pc[c] \in {"unsub", "sub", "raised"} =>
          /\ IsPrefix(us_sent[c], C3_Expected(us_A[c], us_target[c]))
          /\ us_sent[c] # C3_Expected(us_A[c], us_target[c]))

\* a call from another task has returned after sending an unsub and a sub frame
C3_Witness ==
  /\ us_pc["ext"] = "returned"
  /\ Len(us_sent["ext"]) = 2
  /\ active_option_keys = us_target["ext"]

\* C5: no receive is issued on a connection whose receive has raised.
C5_NoReceiveAfterRaise == ~(fc_pc = "recv" /\ conn_raised)

\* C6: while running, a failed or ended connection attempt is followed by the
\* wait and then a new authorization attempt; at least RECONNECT_DELAY seconds
\* pass between two authorization attempts; start_stream does not return while
\* is_running is true.
C6_ReconnectDelay ==
  /\ [](fc_gap = -1 \/ fc_gap >= RECONNECT_DELAY)
  /\ [](fc_pc = "returned" => ~is_running)
  /\ [][(is_running /\ (ConnectFail \/ ClosingDone)) => fc_pc' = "sleep"]_vars
  /\ [][(is_running /\ SleepDone) =>
          (fc_waited' = 0 /\ fc_gap' >= RECONNECT_DELAY /\ fc_pc' \in {"connect", "sleep"})]_vars

\* a second authorization attempt has been made after a closed connection
C6_Witness == conns = 1 /\ ~ws_open /\ fc_gap >= RECONNECT_DELAY /\ fc_pc = "connect"

\* C7: a frame whose decoding or appending raises is handled inside
\* on_message: the receive loop sees no exception, the connection is the same
\* and stays as it was, nothing of the frame is left over and the next
\* receive is issued.
C7_FrameErrorsSkipped ==
  /\ [][((\E f \in Frames : ~f.ok /\ RecvFrame(f)) \/ AppendFail) =>
          /\ fc_handler' = "on_message"
          /\ websocket' = websocket /\ ws_open' = ws_open /\ conns' = conns
          /\ conn_raised' = conn_raised
          /\ fc_feeds' = <<>>
          /\ fc_pc' = IF is_running THEN "recv" ELSE "closing"]_vars
  /\ [](fc_pc = "append" => (fc_feeds # <<>> /\ Head(fc_feeds).mff))

\* after a dropped frame, an entry of a later frame of the same connection is
\* being appended
C7_Witness == conn_dropped /\ fc_pc = "append" /\ ~conn_raised

\* C8: once is_running is false, start_stream issues no further receive,
\* makes no authorization or connection attempt and does not wait the
\* reconnect delay; it returns.
C8_CooperativeStop ==
  /\ [][(FcStep /\ fc_pc' \in {"recv", "connect", "sleep"}) => is_running']_vars
  /\ (fc_pc # "init" /\ ~is_running) ~> (fc_pc = "returned")

\* the flag went false while a receive was in flight, the frame received was
\* processed, and start_stream has returned
C8_Witness == fc_pc = "returned" /\ ~is_running /\ frames_in >= 1 /\ ~conn_raised /\ conns = 1

\* ---------------------------------------------------------------------
\* Orchestrator cycle
\* ---------------------------------------------------------------------
Performed(op, j) == \E k \in 1..Len(sg_log) : sg_log[k] = <<op, j>>
CycleOver == sg_pc \in {"finally", "stopped"}

\* C2: when processing one instrument of the cycle fails, every other
\* discovered instrument that has ticks in the window (and whose own fetch did
\* not fail) is still published and persisted in that cycle.
C2_OthersStillProcessed ==
  (CycleOver /\ sg_exc = "error" /\ ~stop_requested /\ sg_i >= 1) =>
    \A j \in 1..Len(streams) :
      ( /\ j # sg_i
        /\ window_ticks[streams[j]] # <<>>
        /\ ~(j <= Len(sg_seen) /\ sg_seen[j].ticks = <<>>) )
      => (Performed("publish", j) /\ Performed("insert_sentiment", j))

\* C4: a store failure does not end the loop; the loop is left only after a
\* stop was requested.
C4_LoopEndsOnlyOnStop == CycleOver => stop_requested

\* C9: after a stop request during a cycle, the store operation in flight is
\* not aborted and the store connections are not closed under it.
C9_InFlightNotDisturbed ==
  /\ ~sg_aborted
  /\ (stop_requested /\ sg_pc \in StoreOps) => (redis_open /\ pg_open /\ proc_open)

\* the operations of one instrument whose range fetch returned w, in order
C10_Ops(w) ==
  IF w = <<>> THEN <<"fetch">>
  ELSE <<"fetch", "arrays", "pattern", "imbalance", "greeks", "whale",
         "publish", "insert_pattern">>
       \o (IF analyze_oi_pattern(w).is_panic THEN <<"insert_panic">> ELSE <<>>)
       \o <<"insert_imbalance", "insert_greeks">>
       \o (LET alerts == analyze_whale_activity(w)
           IN [k \in 1..Len(alerts) |-> alerts[k].alert_type])
       \o <<"get_recent", "sentiment", "insert_sentiment">>
RECURSIVE C10_Cycle(_)
C10_Cycle(n) ==
  IF n = 0 THEN <<>>
  ELSE LET ops == C10_Ops(sg_seen[n].ticks)
       IN C10_Cycle(n - 1) \o [k \in 1..Len(ops) |-> <<ops[k], n>>]

\* C10: the operations of a cycle are, instrument after instrument and never
\* interleaved, fetch, arrays, the four analyzers, publish, persist pattern,
\* persist panic iff is_panic, persist imbalance, persist greeks, one persist
\* per whale alert, history query, sentiment, persist sentiment; an instrument
\* without ticks has the fetch only; a cycle that ends normally has done all
\* of them for every discovered stream.
C10_OperationOrder ==
  /\ Len(sg_seen) <= Len(streams)
  /\ \A j \in 1..Len(sg_seen) : sg_seen[j].key = streams[j]
  /\ LET cycle == C10_Cycle(Len(sg_seen))
     IN /\ IsPrefix(sg_log, cycle)
        /\ (sg_exc = "none" /\ sg_pc \in {"sleep", "finally", "stopped"})
             => (Len(sg_seen) = Len(streams) /\ sg_log = cycle)
C10_Witness ==
  /\ sg_pc = "sleep" /\ sg_exc = "none" /\ ~stop_requested
  /\ Len(sg_seen) = 2
  /\ analyze_oi_pattern(sg_seen[1].ticks).is_panic
  /\ Len(analyze_whale_activity(sg_seen[1].ticks)) = 2
  /\ sg_seen[2].ticks # <<>>
  /\ ~analyze_oi_pattern(sg_seen[2].ticks).is_panic
  /\ Performed("insert_sentiment", 2)

\* ---------------------------------------------------------------------
\* Minute scheduling
\* ---------------------------------------------------------------------
C11_NoTwoInOneMinute == \A i, j \in 1..Len(begins) : i < j => begins[i] < begins[j]

\* C11 (as stated): no clock minute has two cycle beginnings, and once the
\* first cycle has begun no clock minute passes without one.
C11_ExactlyOnePerMinute ==
  /\ C11_NoTwoInOneMinute
  /\ begins # <<>> =>
       \A m \in begins[1]..(MinuteOf(now) - 1) : \E k \in 1..Len(begins) : begins[k] = m

\* C11 (amended): no clock minute has two cycle beginnings; every sleep is due
\* at the next minute boundary (at least MIN_SLEEP ahead); and each cycle begins
\* in the first clock minute that starts after the processing of the cycle
\* before it ended, so a minute is passed over only by processing that runs
\* into or beyond it.
C11_OnePerMinuteUnlessOverrun ==
  /\ C11_NoTwoInOneMinute
  /\ sched_pc = "sleeping" =>
       /\ MinuteOf(wake_at) = (IF ends = <<>> THEN 0 ELSE ends[Len(ends)]) + 1
       /\ wake_at % MINUTE < MIN_SLEEP
  /\ \A k \in 1..Len(ends) :
       /\ begins[k] = ends[k] =>
            (k < Len(begins) => begins[k + 1] = begins[k] + 1)
       /\ k < Len(begins) => begins[k + 1] = ends[k] + 1
C11_Witness ==
  /\ Len(begins) = 2
  /\ sched_pc = "sleeping"
  /\ begins[2] = begins[1] + 1
  /\ ends[1] = begins[1]
  /\ ends = <<begins[1], begins[2] + 1>>

\* ---------------------------------------------------------------------
\* Pattern analyzer
\* ---------------------------------------------------------------------
C12_First == an_in[1]
C12_Last == an_in[Len(an_in)]
C12_PriceChange == C12_Last.ltp - C12_First.ltp
C12_OiChange == C12_Last.oi - C12_First.oi
C12_VolumeChange == C12_Last.volume - C12_First.volume
C12_IsPanic ==
  /\ C12_OiChange < -5000
  /\ C12_First.ltp > 0 /\ C12_PriceChange * 100 > 1 * C12_First.ltp
  /\ C12_VolumeChange > 1000 * 2
C12_SmallOi == -500 <= C12_OiChange /\ C12_OiChange <= 500
C12_Is(pattern, signal, panic) ==
  an_out.pattern = pattern /\ an_out.signal = signal /\ an_out.is_panic = panic

\* C12: on a window of at least 2 ticks the classification follows the strict
\* priority panic, low volume, churn, then the signs of the price and the OI
\* change; is_panic holds exactly for the panic pattern.
C12_PatternPriority ==
  (an_fn = "pattern" /\ Len(an_in) >= 2) =>
    /\ C12_IsPanic => C12_Is("Panic (Short Covering)", "PANIC BUY", TRUE)
    /\ (~C12_IsPanic /\ C12_VolumeChange < 1000) => C12_Is("Low Volume", "Skip", FALSE)
    /\ (~C12_IsPanic /\ C12_VolumeChange >= 1000 /\ C12_SmallOi)
         => C12_Is("Neutral", "Churn", FALSE)
    /\ (~C12_IsPanic /\ C12_VolumeChange >= 1000 /\ ~C12_SmallOi) =>
         /\ (C12_PriceChange > 0 /\ C12_OiChange > 0) => C12_Is("Long Buildup", "Bullish", FALSE)
         /\ (C12_PriceChange > 0 /\ C12_OiChange < 0)
              => C12_Is("Short Covering", "Very Bullish", FALSE)
         /\ (C12_PriceChange < 0 /\ C12_OiChange > 0) => C12_Is("Short Buildup", "Bearish", FALSE)
         /\ (C12_PriceChange < 0 /\ C12_OiChange < 0)
              => C12_Is("Long Unwinding", "Bearish", FALSE)
    /\ an_out.is_panic <=> (an_out.pattern = "Panic (Short Covering)")
C12_Witness ==
  /\ an_fn = "pattern" /\ Len(an_in) = 3
  /\ an_out.pattern = "Short Covering"
  /\ C12_OiChange < -5000 /\ C12_VolumeChange > 2000

\* C13: a window whose first and last price are equal is never classified as a
\* directional pattern nor as panic: it is Low Volume/Skip or Neutral/Churn.
C13_FlatPriceNotDirectional ==
  (an_fn = "pattern" /\ Len(an_in) >= 2 /\ an_in[1].ltp = an_in[Len(an_in)].ltp) =>
    \/ an_out.pattern = "Low Volume" /\ an_out.signal = "Skip" /\ ~an_out.is_panic
    \/ an_out.pattern = "Neutral" /\ an_out.signal = "Churn" /\ ~an_out.is_panic
C13_Witness ==
  /\ an_fn = "pattern" /\ Len(an_in) >= 2
  /\ an_in[1].ltp = an_in[Len(an_in)].ltp
  /\ an_in[Len(an_in)].oi - an_in[1].oi > 500
  /\ an_in[Len(an_in)].volume - an_in[1].volume >= 1000
  /\ an_out.pattern = "Neutral"

\* ---------------------------------------------------------------------
\* Imbalance analyzer
\* ---------------------------------------------------------------------
C14_Swap(w) == [i \in DOMAIN w |-> [tbq |-> w[i].tsq, tsq |-> w[i].tbq, ltp |-> w[i].ltp]]
C14_SwapSignal(sig) ==
  IF sig = "Bullish (Bid Heavy)" THEN "Bearish (Ask Heavy)"
  ELSE IF sig = "Bearish (Ask Heavy)" THEN "Bullish (Bid Heavy)"
  ELSE sig

\* C14: on a window with at least one tick the ratio lies in [-1, 1]; swapping
\* tbq and tsq negates it, swaps the Bullish and Bearish signals and keeps
\* Neutral; tbq + tsq = 0 gives ratio 0 and Neutral.
C14_RatioBoundedAntisymmetric ==
  (an_fn = "imbalance" /\ Len(an_in) >= 1) =>
    LET r == an_out.imbalance_ratio
        swapped == analyze_order_book_imbalance(C14_Swap(an_in))
        q == swapped.imbalance_ratio
        last == an_in[Len(an_in)]
    IN /\ r[2] > 0
       /\ -r[2] <= r[1] /\ r[1] <= r[2]
       /\ q[1] * r[2] = -r[1] * q[2]
       /\ swapped.signal = C14_SwapSignal(an_out.signal)
       /\ an_out.signal \in {"Bullish (Bid Heavy)", "Bearish (Ask Heavy)", "Neutral"}
       /\ an_out.signal = "Bullish (Bid Heavy)" <=> 5 * r[1] > r[2]
       /\ last.tbq + last.tsq = 0 => (r[1] = 0 /\ an_out.signal = "Neutral")
C14_Witness ==
  /\ an_fn = "imbalance" /\ Len(an_in) = 2
  /\ an_out.signal = "Bearish (Ask Heavy)"
  /\ an_in[1].tbq > an_in[1].tsq

\* ---------------------------------------------------------------------
\* Greeks momentum analyzer
\* ---------------------------------------------------------------------
C15_Arrays == an_in.arrays
C15_Unchanged(f) == C15_Arrays[1][f] = C15_Arrays[Len(C15_Arrays)][f]

\* C15: with at least 2 points and a positive duration the score is within
\* [0, 100]; with delta, gamma and iv unchanged it is exactly 50, Neutral, WAIT.
C15_ScoreClamped ==
  (an_fn = "greeks" /\ Len(C15_Arrays) >= 2 /\ an_in.duration_seconds > 0) =>
    LET n == an_out.momentum_score[1]
        d == an_out.momentum_score[2]
    IN /\ d > 0
       /\ 0 <= n /\ n <= 100 * d
       /\ (C15_Unchanged("delta") /\ C15_Unchanged("gamma") /\ C15_Unchanged("iv")) =>
            (n = 50 * d /\ an_out.momentum_type = "Neutral" /\ an_out.signal = "WAIT")
C15_Witness ==
  /\ an_fn = "greeks" /\ Len(C15_Arrays) = 3
  /\ C15_Unchanged("delta") /\ C15_Unchanged("gamma") /\ C15_Unchanged("iv")
  /\ ~C15_Unchanged("theta")
  /\ an_out.signal = "WAIT"

\* C16: with fewer than 2 points the analyzer returns its defaults: the four
\* rates 0, score 50, Neutral, WAIT.
C16_DefaultsScore50 ==
  (an_fn = "greeks" /\ Len(C15_Arrays) < 2) =>
    /\ an_out.delta_velocity[1] = 0 /\ an_out.gamma_acceleration[1] = 0
    /\ an_out.iv_velocity[1] = 0 /\ an_out.theta_acceleration[1] = 0
    /\ an_out.momentum_score[1] = 50 * an_out.momentum_score[2]
    /\ an_out.momentum_type = "Neutral" /\ an_out.signal = "WAIT"

\* c(r, t, w) of the rate change/seconds, times seconds * t
C17_c(change, seconds, t, w) ==
  IF change >= t * seconds THEN w * seconds * t
  ELSE IF -change >= t * seconds THEN -w * seconds * t
  ELSE change * w

\* C17: with at least 2 points the score is 50 + c(delta velocity, 0.001, 20)
\* + c(gamma acceleration, 0.0001, 15) + c(iv velocity, 0.0005, 10), each c being
\* the full signed weight at or above the threshold and (r/t)*w below it.
C17_ScoreFormula ==
  (an_fn = "greeks" /\ Len(C15_Arrays) >= 2) =>
    LET T == an_in.duration_seconds
        first == C15_Arrays[1]
        last == C15_Arrays[Len(C15_Arrays)]
        n == an_out.momentum_score[1]
        d == an_out.momentum_score[2]
    IN \* n/d = 50 + cd/(10 T) + cg/(1 T) + ci/(5 T), multiplied by 10 T d
       n * 10 * T =
         d * ( 50 * 10 * T
               + C17_c(last.delta - first.delta, T, 10, 20)
               + C17_c(last.gamma - first.gamma, T, 1, 15) * 10
               + C17_c(last.iv - first.iv, T, 5, 10) * 2 )

\* ---- C18 ----------------------------------------------------------------
\* the five contributions, counted from the history given to the call
C18_Latest == Take(an_in.pg_data.patterns, LATEST_PATTERNS)
C18_Bullish(sig) == In("Bullish", sig) \/ In("Buy", sig)
C18_Bearish(sig) == ~C18_Bullish(sig) /\ (In("Bearish", sig) \/ In("Sell", sig))
C18_PatternPart ==
  10 * (Cardinality({i \in DOMAIN C18_Latest : C18_Bullish(C18_Latest[i].signal)})
        - Cardinality({i \in DOMAIN C18_Latest : C18_Bearish(C18_Latest[i].signal)}))
C18_PanicPart ==
  IF an_in.pg_data.panic = <<>> THEN 0
  ELSE IF In("Buy", an_in.pg_data.panic[1]) THEN 30
  ELSE IF In("Sell", an_in.pg_data.panic[1]) THEN -30 ELSE 0
C18_WhalePart ==
  LET w == an_in.pg_data.whales
  IN 15 * (Cardinality({i \in DOMAIN w : In("Bullish", w[i].signal)})
           - Cardinality({i \in DOMAIN w : ~In("Bullish", w[i].signal)
                                           /\ In("Bearish", w[i].signal)}))
\* mean ratio * 50 as a fraction over 10 * k, k the number of imbalance rows
C18_K == IF an_in.pg_data.imbalance = <<>> THEN 1 ELSE Len(an_in.pg_data.imbalance)
C18_ImbalancePart10K ==
  IF an_in.pg_data.imbalance = <<>> THEN 0
  ELSE 50 * SeqSum([i \in DOMAIN an_in.pg_data.imbalance |->
                      an_in.pg_data.imbalance[i].imbalance_ratio])
\* (latest momentum score - 50) * 0.4 as a fraction over 10
C18_GreeksPart10 ==
  IF an_in.pg_data.greeks = <<>> THEN 0 ELSE (an_in.pg_data.greeks[1] - 50) * 4
\* the single sum, as a fraction over 10 * k
C18_Sum10K ==
  (C18_PatternPart + C18_PanicPart + C18_WhalePart) * 10 * C18_K
  + C18_ImbalancePart10K + C18_GreeksPart10 * C18_K
C18_Clamped10K ==
  IF C18_Sum10K > 100 * 10 * C18_K THEN 100 * 10 * C18_K
  ELSE IF C18_Sum10K < -100 * 10 * C18_K THEN -100 * 10 * C18_K
  ELSE C18_Sum10K

\* C18: for every history, the sentiment score lies in [-100, 100] and is the
\* single sum of the five contributions (patterns +10/-10 among the latest 5,
\* latest panic +30/-30, mean imbalance ratio * 50, (latest momentum score -
\* 50) * 0.4, whales +15/-15) clamped once; the reported sentiment_score is
\* that value rounded to 2 decimals; a sum above 100 gives exactly 100 with
\* the label Extreme Bullish.
C18_SumThenClamp ==
  an_fn = "sentiment" =>
    /\ an_out.score[1] * 10 * C18_K = C18_Clamped10K * an_out.score[2]
    /\ -100 * an_out.score[2] <= an_out.score[1]
    /\ an_out.score[1] <= 100 * an_out.score[2]
    /\ an_out.sentiment_score = Round2(C18_Clamped10K, 10 * C18_K)
    /\ an_out.sentiment_score \in -10000..10000
    /\ (C18_Sum10K > 100 * 10 * C18_K =>
          /\ an_out.sentiment_score = 10000
          /\ an_out.sentiment = "Extreme Bullish")

\* five bullish contributions summing above 100 (20 + 30 + 20 + 14 + 30)
C18_Witness ==
  /\ an_fn = "sentiment"
  /\ C18_PatternPart = 20 /\ C18_PanicPart = 30 /\ C18_WhalePart = 30
  /\ C18_ImbalancePart10K = 20 * 10 * C18_K /\ C18_GreeksPart10 = 140
  /\ an_out.sentiment_score = 10000
  /\ an_out.sentiment = "Extreme Bullish"

\* ---- C19 ----------------------------------------------------------------
C19_Tenth == (an_in.ltp * 1) \div 1000     \* 0.1% of ltp
C19_Risk == IF an_out.trade_setup.signal = "BUY"
            THEN an_in.ltp - an_out.trade_setup.stop_loss
            ELSE an_out.trade_setup.stop_loss - an_in.ltp
C19_Reward == IF an_out.trade_setup.signal = "BUY"
              THEN an_out.trade_setup.target - an_in.ltp
              ELSE an_in.ltp - an_out.trade_setup.target

\* C19: the trade setup follows the clamped score: BUY iff score > 20, with
\* stop_loss = support - 0.1% of ltp and target = resistance + 0.2% of ltp;
\* SELL iff score < -20, with stop_loss = resistance + 0.1% of ltp and target
\* = support - 0.2% of ltp; otherwise WAIT with target, stop_loss and rr_ratio
\* 0; rr_ratio is reward/risk (to 2 decimals) only when risk > 0 and 0
\* otherwise; entry_price is always ltp.
C19_TradeSetup ==
  an_fn = "sentiment" =>
    LET ts == an_out.trade_setup
        n == an_out.score[1]
        d == an_out.score[2]
    IN /\ ts.entry_price = an_in.ltp
       /\ ts.signal \in {"BUY", "SELL", "WAIT"}
       /\ (ts.signal = "BUY") <=> (n > 20 * d)
       /\ (ts.signal = "SELL") <=> (n < -20 * d)
       /\ ts.signal = "BUY" =>
            /\ ts.stop_loss = an_out.support - C19_Tenth
            /\ ts.target = an_out.resistance + 2 * C19_Tenth
       /\ ts.signal = "SELL" =>
            /\ ts.stop_loss = an_out.resistance + C19_Tenth
            /\ ts.target = an_out.support - 2 * C19_Tenth
       /\ ts.signal = "WAIT" =>
            ts.target = 0 /\ ts.stop_loss = 0 /\ ts.rr_ratio = 0
       /\ ts.signal # "WAIT" =>
            ts.rr_ratio = IF C19_Risk > 0 THEN Round2(C19_Reward, C19_Risk) ELSE 0

\* a BUY whose risk is positive, so that rr_ratio is computed
C19_Witness ==
  /\ an_fn = "sentiment"
  /\ an_out.trade_setup.signal = "BUY"
  /\ C19_Risk > 0
  /\ an_out.trade_setup.rr_ratio > 0

\* further cases of C19 that the histories reach
C19_BuyNoRisk ==
  an_fn = "sentiment" /\ an_out.trade_setup.signal = "BUY" /\ C19_Risk <= 0
C19_SellNoRisk ==
  an_fn = "sentiment" /\ an_out.trade_setup.signal = "SELL" /\ C19_Risk <= 0
C19_SellRisk ==
  an_fn = "sentiment" /\ an_out.trade_setup.signal = "SELL" /\ C19_Risk > 0
C19_ScoreExactly20 ==
  an_fn = "sentiment" /\ an_out.score[1] = 20 * an_out.score[2]

\* ---- C20 ----------------------------------------------------------------
C20_Diffs == {an_in[i + 1].oi - an_in[i].oi : i \in 1..(Len(an_in) - 1)}
C20_Max == CHOOSE d \in C20_Diffs : \A e \in C20_Diffs : e <= d
C20_Min == CHOOSE d \in C20_Diffs : \A e \in C20_Diffs : d <= e
C20_Band(m) == IF m >= 20000 THEN "Mega Whale"
               ELSE IF m >= 10000 THEN "Large Whale"
               ELSE IF m >= 5000 THEN "Medium Whale"
               ELSE "Small Whale"
C20_Alerts(type) == {i \in DOMAIN an_out : an_out[i].alert_type = type}

\* C20: for a window of at least 2 ticks there is an OI Jump alert iff the
\* largest consecutive OI difference d is >= 2000; it is Bullish, has alert
\* value d and whale type Small / Medium / Large / Mega for d in [2000, 5000) /
\* [5000, 10000) / [10000, 20000) / [20000, ..).  There is an OI Drop alert
\* iff the smallest difference is <= -2000; it is Bearish and banded by its
\* magnitude.  Each is decided on its own and appears at most once; oi =
\* [100000, 125000] with no other trigger gives exactly one alert, Mega Whale /
\* OI Jump / Bullish.
C20_OiBands ==
  (an_fn = "whale" /\ Len(an_in) >= 2) =>
    /\ Cardinality(C20_Alerts("OI Jump")) <= 1
    /\ Cardinality(C20_Alerts("OI Drop")) <= 1
    /\ (C20_Alerts("OI Jump") # {}) <=> (C20_Max >= 2000)
    /\ (C20_Alerts("OI Drop") # {}) <=> (C20_Min <= -2000)
    /\ \A i \in C20_Alerts("OI Jump") :
         /\ an_out[i].signal = "Bullish"
         /\ an_out[i].alert_value = C20_Max
         /\ an_out[i].whale_type = C20_Band(C20_Max)
    /\ \A i \in C20_Alerts("OI Drop") :
         /\ an_out[i].signal = "Bearish"
         /\ an_out[i].whale_type = C20_Band(-C20_Min)
    /\ (Len(an_in) = 2 /\ an_in[1].oi = 100000 /\ an_in[2].oi = 125000
          /\ an_in[2].bid_qty = 0) =>
         /\ Len(an_out) = 1
         /\ an_out[1].whale_type = "Mega Whale"
         /\ an_out[1].alert_type = "OI Jump"
         /\ an_out[1].signal = "Bullish"

\* a window with both a jump and a drop, each on a band edge
C20_Witness ==
  /\ an_fn = "whale" /\ Len(an_in) = 3
  /\ C20_Max = 5000 /\ C20_Min = -10000
  /\ Len(an_out) = 2
  /\ an_out[1].whale_type = "Medium Whale" /\ an_out[1].alert_type = "OI Jump"
  /\ an_out[2].whale_type = "Large Whale" /\ an_out[2].alert_type = "OI Drop"

\* the scenario of the test: oi = [100000, 125000]
C20_Scenario ==
  /\ an_fn = "whale" /\ Len(an_in) = 2
  /\ an_in[1].oi = 100000 /\ an_in[2].oi = 125000
  /\ Len(an_out) = 1

C22_Held(k) == {rt_log[k][i] : i \in DOMAIN rt_log[k]}

\* C22: immediately after an append made at time t, the stream holds no entry
\* whose ID time is older than t - 120 s, and it holds the appended entry.
C22_TrimmedOnAppend ==
  rt_just # "none" =>
    /\ \A e \in C22_Held(rt_just) : e.t >= rt_now - RETENTION
    /\ [t |-> rt_now, n |-> rt_n] \in C22_Held(rt_just)

\* the appended entry is there after every append, also when the stream held
\* stale entries
C22_AppendedPresent ==
  rt_just # "none" => [t |-> rt_now, n |-> rt_n] \in C22_Held(rt_just)
C22_StaleBeforeAppend ==
  /\ rt_just # "none"
  /\ \E e \in rt_ever[rt_just] : e.t < rt_now - RETENTION

C30_LateFetchLoses ==
  /\ rt_got.key # "none"
  /\ rt_got.at >= rt_got.end_time + WINDOW
  /\ \E e \in rt_ever[rt_got.key] :
       /\ rt_got.end_time - WINDOW <= e.t /\ e.t < rt_got.end_time
       /\ e \notin rt_got.ticks

\* =====================================================================
\* Claims about the routing of decoded frames
\* =====================================================================
\* the stream an instrument key goes to: its alias if it has one
C23_Target(k) == IF k = "NSE_INDEX|Nifty 50" THEN <<"stream", "NIFTY_50">>
                 ELSE IF k = "NSE_FO|1" THEN <<"stream", "26200_CE">>
                 ELSE <<"stream", k>>
C23_AllStreams == {<<"stream", x>> : x \in InstrKeys \cup {"NIFTY_50", "26200_CE"}}
C23_Records(st, s) == IF s \in DOMAIN st THEN st[s] ELSE 0
\* entries of the frame the loop of on_message has gone past
C23_Done == Len(fc_frame) - Len(fc_feeds)
\* records of stream s due to the first n entries of frame f
C23_Due(f, n, s) == Cardinality({i \in 1..n : f[i].mff /\ C23_Target(f[i].key) = s})

C24_Stored(f, v) ==
  IF f \in {"ltt", "oi", "volume", "tbq", "tsq", "bid_qtys", "ask_qtys"} \/ v < 16777216
  THEN v ELSE 2 * (v \div 2)
C24_Level(i, j, m) ==
  LET level == an_in[i].depth[j]
  IN CASE m = "bid_prices" -> level.bidP [] m = "bid_qtys" -> level.bidQ
       [] m = "ask_prices" -> level.askP [] m = "ask_qtys" -> level.askQ

\* C24: for N ticks every scalar array has length N and its element i is the
\* field of tick i (in the array's dtype), in arrival order; each of the four
\* depth matrices is N x 30, its entry (i, j) is level j of tick i for j up to
\* min(30, levels of tick i) and 0 beyond, levels past the 30th being dropped;
\* no ticks give empty scalar arrays and 0 x 30 matrices.
C24_ArraysFollowTicks ==
  an_fn = "arrays" =>
    LET N == Len(an_in) IN
    /\ DOMAIN an_out = {"ltp", "ltt", "cp", "oi", "volume", "atp", "tbq", "tsq",
                        "delta", "gamma", "theta", "vega", "rho", "iv",
                        "bid_prices", "bid_qtys", "ask_prices", "ask_qtys"}
    /\ \A f \in {"ltp", "ltt", "cp", "oi", "volume", "atp", "tbq", "tsq",
                 "delta", "gamma", "theta", "vega", "rho", "iv"} :
         /\ Len(an_out[f]) = N
         /\ \A i \in 1..N : an_out[f][i] = C24_Stored(f, an_in[i][f])
    /\ \A m \in {"bid_prices", "bid_qtys", "ask_prices", "ask_qtys"} :
         /\ an_out[m].shape = <<N, 30>>
         /\ Len(an_out[m].rows) = N
         /\ \A i \in 1..N :
              /\ Len(an_out[m].rows[i]) = 30
              /\ \A j \in 1..30 :
                   an_out[m].rows[i][j] =
                     IF j <= Len(an_in[i].depth)
                     THEN C24_Stored(m, C24_Level(i, j, m)) ELSE 0

\* two different ticks, the first with 31 levels and the second with one
C24_Witness ==
  /\ an_fn = "arrays" /\ Len(an_in) = 2
  /\ Len(an_in[1].depth) = 31 /\ Len(an_in[2].depth) = 1
  /\ an_out["oi"] = <<20000, 10000>>
  /\ an_out["bid_qtys"].rows[1][30] = 302 /\ an_out["bid_qtys"].rows[2][2] = 0

\* no ticks
C24_Empty ==
  /\ an_fn = "arrays" /\ an_in = <<>>
  /\ an_out["ltp"] = <<>> /\ an_out["ask_prices"] = [shape |-> <<0, 30>>, rows |-> <<>>]

\* ---------------------------------------------------------------- C25, C26
\* option keys the upstream holds after the frames `sent` reached it, when it
\* held A before: a key stays or goes with the last frame that names it
C25_Upstream(A, sent) ==
  {k \in OptionKeys :
     LET named == {i \in DOMAIN sent : k \in sent[i].keys} IN
       IF named = {} THEN k \in A
       ELSE sent[CHOOSE i \in named : \A j \in named : j <= i].method = "sub"}

\* the step in which a send of caller c raises, on the first connection, no
\* other call having changed active_option_keys since this one read it
C25_Raises(c) ==
  /\ us_pc[c] \in {"unsub", "sub"}
  /\ us_pc'[c] = "raised"
  /\ conns = 1
  /\ active_option_keys = us_A[c]

\* C25: within one connection, when a control-frame send raises inside
\* update_subscriptions, active_option_keys is left unchanged and still equals
\* the set of option keys the upstream holds subscribed (a sub frame and no
\* later unsub frame was sent).
C25_RaiseKeepsSync ==
  [][\A c \in Callers : C25_Raises(c) =>
        /\ active_option_keys' = active_option_keys
        /\ active_option_keys' = C25_Upstream(us_A'[c], us_sent'[c])]_vars

\* the unsub frame went out, the sub send raised: the upstream dropped keys
\* that active_option_keys still lists
C25_HalfApplied ==
  /\ us_pc["ext"] = "raised"
  /\ conns = 1
  /\ Len(us_sent["ext"]) = 1
  /\ us_sent["ext"][1].method = "unsub"
  /\ active_option_keys = us_A["ext"]
  /\ up_subs = active_option_keys \ us_sent["ext"][1].keys
  /\ up_subs # active_option_keys

\* both callers made one call on the first connection, with different targets,
\* each read the same active set, sent frames and returned: the calls overlapped
\* (had one returned before the other began, the later would have read the
\* earlier one's target)
C26_Overlapped ==
  /\ conns = 1
  /\ calls = 1
  /\ \A c \in Callers : us_pc[c] = "returned" /\ us_sent[c] # <<>>
  /\ us_A["fc"] = us_A["ext"]
  /\ us_target["fc"] # us_target["ext"]

\* C26: once two overlapping update_subscriptions calls with different targets
\* have both returned, active_option_keys equals the set of option keys
\* subscribed upstream by the frames sent, and equals the target of the call
\* that finished last.
C26_OverlapConverges ==
  [][\A c \in Callers :
        (us_pc[c] \in {"unsub", "sub"} /\ us_pc'[c] = "returned" /\ C26_Overlapped') =>
          /\ active_option_keys' = us_target'[c]
          /\ active_option_keys' = up_subs']_vars

\* both overlapping calls have returned and the upstream holds the union of
\* their targets
C26_UnionUpstream ==
  /\ C26_Overlapped
  /\ up_subs = us_target["fc"] \cup us_target["ext"]
  /\ active_option_keys # up_subs
  /\ active_option_keys \in {us_target["fc"], us_target["ext"]}

\* ---------------------------------------------------------------- C27
\* the signal strings analyze_oi_pattern returns with is_panic = TRUE, which
\* the orchestrator persists unchanged as the panic row's signal
C27_PanicSignals ==
  {analyze_oi_pattern(w).signal : w \in {v \in PatternWindows : analyze_oi_pattern(v).is_panic}}

\* the aggregator ran on a history whose latest panic row carries the signal
\* the Pattern Analyzer emits
C27_LatestIsEmitted ==
  /\ an_fn = "sentiment"
  /\ an_in.pg_data.panic # <<>>
  /\ an_in.pg_data.panic[1] \in C27_PanicSignals

\* the score of a history when its panic row contributes `panic`
C27_ScoreWith(pg_data, panic) ==
  LET d == ScoreDen(pg_data)
      sum == (pattern_score(pg_data) + panic + whale_score(pg_data)) * d
             + imbalance_num(pg_data) + greeks_num(pg_data)
  IN <<IF sum > 100 * d THEN 100 * d ELSE IF sum < -100 * d THEN -100 * d ELSE sum, d>>

\* C27: a panic row persisted from the Pattern Analyzer's panic result (signal
\* PANIC BUY) makes the Sentiment Aggregator add the +30 panic contribution to
\* the score and the panic-buy insight.
C27_PanicBuyCounts ==
  C27_LatestIsEmitted =>
    /\ an_out.score = C27_ScoreWith(an_in.pg_data, 30)
    /\ an_out.panic_insight = "Recent Panic Buy detected!"

\* the emitted panic row, alone in the history, leaves the score at 0 and adds
\* no insight
C27_PanicIgnored ==
  /\ C27_LatestIsEmitted
  /\ an_in.pg_data.patterns = <<>> /\ an_in.pg_data.imbalance = <<>>
  /\ an_in.pg_data.greeks = <<>> /\ an_in.pg_data.whales = <<>>
  /\ an_out.score[1] = 0
  /\ an_out.sentiment = "Neutral"
  /\ an_out.panic_insight = "none"

\* ---------------------------------------------------------------- C28
\* C28: in every sentiment result the label and the trade setup agree: the
\* label is Bullish or Extreme Bullish exactly when the trade setup signal is
\* BUY, Bearish or Extreme Bearish exactly when it is SELL, and Neutral exactly
\* when it is WAIT.
C28_LabelMatchesSetup ==
  an_fn = "sentiment" =>
    /\ an_out.sentiment \in {"Bullish", "Extreme Bullish"} <=> an_out.trade_setup.signal = "BUY"
    /\ an_out.sentiment \in {"Bearish", "Extreme Bearish"} <=> an_out.trade_setup.signal = "SELL"
    /\ an_out.sentiment = "Neutral" <=> an_out.trade_setup.signal = "WAIT"

\* a score of exactly 20 is labelled Bullish while the trade setup waits
C28_BullishButWait ==
  /\ an_fn = "sentiment"
  /\ an_out.score[1] = 20 * an_out.score[2]
  /\ an_out.sentiment = "Bullish"
  /\ an_out.trade_setup.signal = "WAIT"

\* a score of exactly -20 is labelled Bearish while the trade setup waits
C28_BearishButWait ==
  /\ an_fn = "sentiment"
  /\ an_out.score[1] = -20 * an_out.score[2]
  /\ an_out.sentiment = "Bearish"
  /\ an_out.trade_setup.signal = "WAIT"

\* ---------------------------------------------------------------- C29
C29_NonDecreasing(w) == \A i \in 1..(Len(w) - 1) : w[i].volume <= w[i + 1].volume
C29_Spikes(alerts) == {i \in DOMAIN alerts : alerts[i].alert_type = "Volume Spike"}
C29_LargestRise(w) == SetMax({w[i + 1].volume - w[i].volume : i \in 1..(Len(w) - 1)})

\* C29: with a cumulative volume array that never decreases,
\* analyze_whale_activity emits a Volume Spike alert only for windows of at
\* least 12 ticks; for a window of 2 to 11 ticks no Volume Spike is emitted,
\* however large the largest single-tick volume increase is.
C29_SpikeNeedsTwelveTicks ==
  (an_fn = "whale" /\ C29_NonDecreasing(an_in)) =>
    /\ Len(an_in) \in 2..11 => C29_Spikes(an_out) = {}
    /\ C29_Spikes(an_out) # {} => Len(an_in) >= 12

\* an 11-tick window whose volume rises by a million in one tick: no spike
C29_Witness ==
  /\ an_fn = "whale"
  /\ C29_NonDecreasing(an_in)
  /\ Len(an_in) = 11
  /\ C29_LargestRise(an_in) >= 1000000
  /\ C29_Spikes(an_out) = {}

\* a 12-tick window with the same rise is reported
C29_TwelveTicksSpike ==
  /\ an_fn = "whale"
  /\ C29_NonDecreasing(an_in)
  /\ Len(an_in) = 12
  /\ C29_Spikes(an_out) # {}

\* a 3-tick window whose volume falls back is reported: the bound rests on the
\* volume never decreasing
C29_ResetSpikes ==
  /\ an_fn = "whale"
  /\ ~C29_NonDecreasing(an_in)
  /\ Len(an_in) = 3
  /\ C29_Spikes(an_out) # {}

====
